---- MODULE Spec2Model ----
(***************************************************************************)
(* Instance lifecycle of the flake pilots (podman-pilot, firecracker-pilot)*)
(* as a state machine: the ID directory, the VM overlay images, the vsock  *)
(* sockets, the engine's instances, and a bounded number of pilot          *)
(* invocations that interleave at the granularity of one file-system call  *)
(* or one engine subprocess.                                               *)
(***************************************************************************)
EXTENDS Integers, Sequences, FiniteSets, TLC

(* ---- bounds of the model ---- *)
NumProcs == 2          \* pilot invocations that may overlap
MaxPid == 2            \* VM monitor processes spawned in one behaviour
MaxCid == 2            \* containers created in one behaviour

(* ---- program constants ---- *)
GC_THRESHOLD == 20

Procs == 1..NumProcs

(* The two registered programs: one flake of each pilot. *)
VmProg == "vmapp"
CtProg == "ctapp"
Progs == {VmProg, CtProg}

(* Argument vectors (argv[1..]) an invocation may be called with. *)
ArgvSet == {<<"%remove", "x">>, <<"@t", "%interactive", "y">>}

(* arg.starts_with('@') and arg.starts_with('%') on the tokens of ArgvSet *)
IsAt(tok) == tok \in {"@t"}
IsPct(tok) == tok \in {"%remove", "%interactive"}

(* get_run_cmdline as it would be if it forwarded every token *)
get_run_cmdline_unfiltered(init, args) == init \o args

(* Lookup::get_run_cmdline(init, false): every token that is neither an    *)
(* @NAME nor a %option, in order, appended to init.                        *)
IsForwarded(tok) == ~IsAt(tok) /\ ~IsPct(tok)
get_run_cmdline(init, args) == init \o SelectSeq(args, IsForwarded)

(* Lookup::get_pilot_run_options: the %name tokens *)
get_pilot_run_options(args) == {args[k] : k \in {j \in 1..Len(args) : IsPct(args[j])}}

(* firecracker get_meta_name: program name followed by every @NAME token.  *)
get_meta_name(prog, args) == <<prog, SelectSeq(args, IsAt)>>

(* podman create: program name, the first @NAME token (or nothing), user.  *)
(* One caller is modelled, so the user part is constant and left out.      *)
cid_file_name(prog, args) ==
    LET name == SelectSeq(args, IsAt)
    IN  <<prog, IF name = <<>> THEN <<>> ELSE <<Head(name)>>>>

(* The ID file of an invocation: <ids_dir>/<identity>.vmid or .cid.        *)
IdentOf(prog, args) ==
    IF prog = VmProg THEN get_meta_name(prog, args) ELSE cid_file_name(prog, args)

Idents == {IdentOf(pr, a) : pr \in Progs, a \in ArgvSet}

(* A fixed directory order of the ID files of Idents (fs::read_dir).       *)
IdentOrder ==
    <<  <<VmProg, <<>>>>, <<VmProg, <<"@t">>>>, <<CtProg, <<>>>>, <<CtProg, <<"@t">>>>  >>

(* get_target_app_path *)
target_app_path == "/usr/bin/app"

(* ID file contents: <<>> no file, <<"pid", 0>> the placeholder "0",       *)
(* <<"pid", n>> a VM monitor process ID, <<"cid", n>> a container ID.      *)
NoFile == <<>>
Zero == <<"pid", 0>>

VARIABLES
    cfg,        \* the flake configurations (fixed once a pilot has read its own)
    idfile,     \* [Idents -> content]: the ID files of the modelled programs
    stale,      \* number of further ID files in the directory, all of dead instances
    sock,       \* [Idents -> BOOLEAN]: /run/sci_cmd_<identity>.sock exists
    ovl,        \* [Idents -> {"none","raw","fs"}]: overlay image <identity>.ext2
    vms,        \* sequence: vms[pid] is the identity VM monitor pid serves
    vmLive,     \* pids of running VM monitors
    cts,        \* sequence: cts[cid] is the identity container cid was made for
    ctExists,   \* containers known to the engine
    ctRunning,  \* running containers
    proc,       \* [Procs -> record]: the state of each pilot invocation
    dist,       \* [Procs -> BOOLEAN]: another actor changed the identity's state
    idn,        \* two invocations and the file names derived for them
    prov,       \* one provisioning run of create, step by step
    ex,         \* one guest command and the status the invocation ends with
    vs,         \* one command transfer over the vsock guest bridge
    sci,        \* the guest init of one VM, from boot on
    pump,       \* one run of the host's stdio pump
    fnv         \* the input and the result of one function of the pilots

(* The pilots' lifecycle state, and the state of the detailed views of one  *)
(* invocation (names, provisioning, exit status, guest bridge).             *)
Main == <<cfg, idfile, stale, sock, ovl, vms, vmLive, cts, ctExists, ctRunning, proc, dist>>
More == <<sci, pump, fnv>>
Side == <<idn, prov, ex, vs, More>>
Off == [pc |-> "off"]
MoreOff == sci = Off /\ pump = Off /\ fnv = Off

vars == <<cfg, idfile, stale, sock, ovl, vms, vmLive, cts, ctExists, ctRunning, proc, dist,
          idn, prov, ex, vs, sci, pump, fnv>>

Idle ==
    [pc |-> "idle", prog |-> VmProg, args |-> <<>>, vmid |-> NoFile,
     snapR |-> <<>>, snapF |-> FALSE, inst |-> 0,
     is_running |-> FALSE, is_created |-> FALSE, is_removed |-> FALSE,
     res |-> "", ops |-> <<>>,
     \* what is remembered of the invocation, to state properties of it:
     view0 |-> <<>>,      \* View of its identity when it was made
     n0 |-> 0,            \* entries of the ID directory when it was made
     dead0 |-> FALSE,     \* no ID file referred to an instance when it was made
     probe |-> "none",    \* what the check of its own ID file found
     zero |-> FALSE,      \* that check read "0" while another creation was under way
     listed |-> -1,       \* entries that gc counted (-1: gc has not listed)
     removed |-> {}]      \* identities whose ID file it has removed

Ident(p) == IdentOf(proc[p].prog, proc[p].args)
IsVm(p) == proc[p].prog = VmProg
IsCt(p) == proc[p].prog = CtProg
At(p, l) == proc[p].pc = l

(* RuntimeSection of the program of invocation p *)
resume(p) == cfg[proc[p].prog].resume
attach(p) == IsCt(p) /\ cfg[CtProg].attach

(* What an invocation can observe of one identity. *)
View(i) ==
    <<idfile[i], sock[i], ovl[i],
      {n \in vmLive : vms[n] = i},
      {n \in ctExists : cts[n] = i},
      {n \in ctRunning : cts[n] = i}>>

(* The runtime sections a program may be registered with.  A pilot reads  *)
(* the configuration of its program on first access; NoConfig stands for   *)
(* the file of a program no pilot has been called for yet.                 *)
NoConfig == [resume |-> FALSE, attach |-> FALSE, force_vsock |-> FALSE, overlay |-> FALSE,
             target |-> target_app_path, loaded |-> FALSE]
Configs(pr) ==
    IF pr = VmProg
    THEN {[resume |-> r, attach |-> FALSE, force_vsock |-> f, overlay |-> o,
           target |-> target_app_path, loaded |-> TRUE] :
             r \in BOOLEAN, f \in BOOLEAN, o \in BOOLEAN}
    ELSE {[resume |-> r, attach |-> a, force_vsock |-> FALSE, overlay |-> FALSE,
           target |-> target_app_path, loaded |-> TRUE] :
             r \in BOOLEAN, a \in BOOLEAN}

Init ==
    /\ cfg = [pr \in Progs |-> NoConfig]
    /\ idfile = [i \in Idents |-> NoFile]
    /\ stale \in {0, GC_THRESHOLD}
    /\ sock = [i \in Idents |-> FALSE]
    /\ ovl = [i \in Idents |-> "none"]
    /\ vms = <<>>
    /\ vmLive = {}
    /\ cts = <<>>
    /\ ctExists = {}
    /\ ctRunning = {}
    /\ proc = [p \in Procs |-> Idle]
    /\ dist = [p \in Procs |-> FALSE]
    /\ idn = Off /\ prov = Off /\ ex = Off /\ vs = Off /\ MoreOff

(* ---- the engines' probes ---- *)

(* vm_running: "0" is never running; else `kill -0 <vmid>` succeeds.  A    *)
(* container ID is no process ID, so kill fails on it.  Process IDs are    *)
(* not reused within a behaviour.                                          *)
vm_running(vmid) == vmid # Zero /\ vmid[1] = "pid" /\ vmid[2] \in vmLive

(* container_exists: `podman container exists <cid>`; a process ID names   *)
(* no container.                                                           *)
container_exists(cid) == cid[1] = "cid" /\ cid[2] \in ctExists

(* container_running: the cid is listed by `podman ps`. *)
container_running(cid) == cid[1] = "cid" /\ cid[2] \in ctRunning

(* the entries of the ID directory (fs::read_dir) *)
IsListed(i) == idfile[i] # NoFile
ListedIdents == SelectSeq(IdentOrder, IsListed)
DirCount == Len(ListedIdents) + stale

(* The content of an ID file refers to an instance its engine knows. *)
Refers(id) == vm_running(id) \/ container_exists(id)
AllDead == \A i \in Idents : idfile[i] # NoFile => ~Refers(idfile[i])

(* An invocation is between its write of "0" and its write of the monitor's *)
(* process ID.                                                              *)
Creating(q) == proc[q].pc \in {"r_ovlchk", "r_ovlnew", "r_mkfs", "r_prov", "s_probe",
                               "s_spawn", "s_write"}
                /\ proc[q].prog = VmProg /\ proc[q].vmid = Zero

(* ---- helpers for the actions ---- *)
Go(p, r) == proc' = [proc EXCEPT ![p] = r]
Finish(p, result) == Go(p, [proc[p] EXCEPT !.pc = "done", !.res = result])
Fs == <<idfile, stale, sock, ovl>>
Engine == <<vms, vmLive, cts, ctExists, ctRunning>>

(* main: the pilot is called through the symlink of program pr; config()  *)
(* loads the configuration of pr.  Invocations are numbered in the order   *)
(* in which they are made; what is remembered of an invocation that has   *)
(* returned is dropped when the next one is made.                          *)
Returned == [Idle EXCEPT !.pc = "done"]
Begin(p, pr) ==
    /\ proc[p].pc = "idle"
    /\ \A q \in Procs : q < p => proc[q].pc # "idle"
    /\ \E a \in ArgvSet :
          proc' = [q \in Procs |->
                     IF q = p
                     THEN [Idle EXCEPT !.pc = "c_exists", !.prog = pr, !.args = a,
                                       !.view0 = View(IdentOf(pr, a)),
                                       !.n0 = DirCount, !.dead0 = AllDead]
                     ELSE IF proc[q].pc = "done" THEN Returned ELSE proc[q]]
    /\ IF cfg[pr].loaded
       THEN UNCHANGED cfg
       ELSE \E c \in Configs(pr) : cfg' = [cfg EXCEPT ![pr] = c]
    /\ UNCHANGED <<Fs, Engine>>

(* main of firecracker-pilot and of podman-pilot *)
fc_main(p) == Begin(p, VmProg)
pm_main(p) == Begin(p, CtProg)

(* ---- garbage collection ---- *)

(* The ID file a garbage collection step of p works on: the file of the    *)
(* invocation's own identity (create) or the next entry of the directory   *)
(* listing (gc).                                                           *)
OwnGc(p) == proc[p].pc \in {"c_probe", "c_rm"}
Target(p) == IF OwnGc(p) THEN Ident(p) ELSE Head(proc[p].snapR)

(* the loop of gc moves on: the listed files of Idents one by one, then    *)
(* the other files of the listing                                          *)
Advance(r) ==
    LET r2 == [r EXCEPT !.snapR = Tail(r.snapR)]
    IN  [r2 EXCEPT !.pc = IF r2.snapR # <<>> THEN "g_probe"
                          ELSE IF r2.snapF THEN "g_rest" ELSE "c_sanity"]

Removed(p) ==
    IF idfile[Target(p)] # NoFile THEN proc[p].removed \cup {Target(p)} ELSE proc[p].removed

(* firecracker gc_meta_files, first half: read the ID file and ask         *)
(* vm_running.  A read error and a running VM leave everything in place.   *)
gc_meta_files_probe(p) ==
    /\ IsVm(p)
    /\ proc[p].pc \in {"c_probe", "g_probe"}
    /\ LET vmid == idfile[Target(p)]
           status == IF vmid = NoFile THEN "gone"
                     ELSE IF vm_running(vmid) THEN "alive" ELSE "dead"
       IN  IF OwnGc(p)
           THEN Go(p, [proc[p] EXCEPT
                    !.probe = status,
                    !.zero = (vmid = Zero /\ \E q \in Procs \ {p} :
                                               Ident(q) = Ident(p) /\ Creating(q)),
                    !.pc = IF status = "dead" THEN "c_rm"
                           ELSE IF status = "alive" /\ resume(p) THEN "c_read"
                           ELSE "c_gc"])
           ELSE IF status = "dead"
                THEN Go(p, [proc[p] EXCEPT !.pc = "g_rm"])
                ELSE Go(p, Advance(proc[p]))
    /\ UNCHANGED <<cfg, Fs, Engine>>

(* gc_meta_files as it would be if it removed the socket and the overlay   *)
(* of a dead VM and left the ID file in place                              *)
gc_meta_files_remove_keeps_id(p) ==
    /\ IsVm(p)
    /\ proc[p].pc \in {"c_rm", "g_rm"}
    /\ sock' = [sock EXCEPT ![get_meta_name(proc[p].prog, proc[p].args)] = FALSE]
    /\ LET resume_arg == IF OwnGc(p) THEN resume(p) ELSE TRUE
       IN  IF ovl[Target(p)] # "none" /\ ~resume_arg
           THEN ovl' = [ovl EXCEPT ![Target(p)] = "none"]
           ELSE UNCHANGED ovl
    /\ IF OwnGc(p)
       THEN Go(p, [proc[p] EXCEPT !.pc = "c_gc", !.removed = Removed(p)])
       ELSE Go(p, Advance([proc[p] EXCEPT !.removed = Removed(p)]))
    /\ UNCHANGED <<cfg, idfile, stale, Engine>>

(* firecracker gc_meta_files, second half: the VM is not running.  Remove  *)
(* the ID file (an error is logged only), the socket named after the       *)
(* program of this invocation, and the overlay named after the ID file     *)
(* unless the caller passed resume (gc always passes true).                *)
gc_meta_files_remove(p) ==
    /\ IsVm(p)
    /\ proc[p].pc \in {"c_rm", "g_rm"}
    /\ idfile' = [idfile EXCEPT ![Target(p)] = NoFile]
    /\ sock' = [sock EXCEPT ![get_meta_name(proc[p].prog, proc[p].args)] = FALSE]
    /\ LET resume_arg == IF OwnGc(p) THEN resume(p) ELSE TRUE
       IN  IF ovl[Target(p)] # "none" /\ ~resume_arg
           THEN ovl' = [ovl EXCEPT ![Target(p)] = "none"]
           ELSE UNCHANGED ovl
    /\ IF OwnGc(p)
       THEN Go(p, [proc[p] EXCEPT !.pc = "c_gc", !.removed = Removed(p)])
       ELSE Go(p, Advance([proc[p] EXCEPT !.removed = Removed(p)]))
    /\ UNCHANGED <<cfg, stale, Engine>>

(* firecracker gc over the other files of the listing: each is read, found *)
(* dead and removed by gc_meta_files, which also removes the socket named  *)
(* after the program of this invocation.  They belong to no identity of    *)
(* Idents, so the loop over them is one step.                              *)
gc_meta_files_rest(p) ==
    /\ IsVm(p)
    /\ At(p, "g_rest")
    /\ stale' = 0
    /\ sock' = IF stale > 0
               THEN [sock EXCEPT ![get_meta_name(proc[p].prog, proc[p].args)] = FALSE]
               ELSE sock
    /\ Go(p, [proc[p] EXCEPT !.pc = "c_sanity", !.snapF = FALSE])
    /\ UNCHANGED <<cfg, idfile, ovl, Engine>>

(* podman gc_cid_file, first half: read the CID file and ask               *)
(* container_exists.  create propagates a read error, gc ignores it.       *)
gc_cid_file_probe(p) ==
    /\ IsCt(p)
    /\ proc[p].pc \in {"c_probe", "g_probe"}
    /\ LET cid == idfile[Target(p)]
           status == IF cid = NoFile THEN "gone"
                     ELSE IF container_exists(cid) THEN "alive" ELSE "dead"
       IN  IF OwnGc(p)
           THEN Go(p, [proc[p] EXCEPT
                    !.probe = status,
                    !.res = IF status = "gone" THEN "IOError" ELSE @,
                    !.pc = IF status = "dead" THEN "c_rm"
                           ELSE IF status = "gone" THEN "done"
                           ELSE IF resume(p) \/ attach(p) THEN "c_read"
                           ELSE "c_gc"])
           ELSE IF status = "dead"
                THEN Go(p, [proc[p] EXCEPT !.pc = "g_rm"])
                ELSE Go(p, Advance(proc[p]))
    /\ UNCHANGED <<cfg, Fs, Engine>>

(* podman gc_cid_file, second half: the container does not exist, remove   *)
(* the CID file.  create propagates a failed removal, gc ignores it.       *)
gc_cid_file_remove(p) ==
    /\ IsCt(p)
    /\ proc[p].pc \in {"c_rm", "g_rm"}
    /\ idfile' = [idfile EXCEPT ![Target(p)] = NoFile]
    /\ IF OwnGc(p)
       THEN IF idfile[Target(p)] # NoFile
            THEN Go(p, [proc[p] EXCEPT !.pc = "c_gc", !.removed = Removed(p)])
            ELSE Finish(p, "IOError")
       ELSE Go(p, Advance([proc[p] EXCEPT !.removed = Removed(p)]))
    /\ UNCHANGED <<cfg, stale, sock, ovl, Engine>>

(* podman gc over the other files of the listing: each is read, found dead *)
(* and removed by gc_cid_file.  One step, as for firecracker.              *)
gc_cid_file_rest(p) ==
    /\ IsCt(p)
    /\ At(p, "g_rest")
    /\ stale' = 0
    /\ Go(p, [proc[p] EXCEPT !.pc = "c_sanity", !.snapF = FALSE])
    /\ UNCHANGED <<cfg, idfile, sock, ovl, Engine>>

(* gc of both pilots: list the ID directory (by default one directory,     *)
(* /tmp/flakes, for both pilots) and sweep it only if it holds more than   *)
(* GC_THRESHOLD entries.                                                   *)
(* the threshold test as it would be if it included the threshold *)
gc_threshold_inclusive(count) == count >= GC_THRESHOLD

gc_threshold(count) == count > GC_THRESHOLD
gc(p) ==
    /\ At(p, "c_gc")
    /\ IF ~gc_threshold(DirCount)
       THEN Go(p, [proc[p] EXCEPT !.pc = "c_sanity", !.listed = DirCount])
       ELSE Go(p, [proc[p] EXCEPT !.pc = IF ListedIdents # <<>> THEN "g_probe" ELSE "g_rest",
                                  !.listed = DirCount,
                                  !.snapR = ListedIdents, !.snapF = (stale > 0)])
    /\ UNCHANGED <<cfg, Fs, Engine>>

(* ---- firecracker-pilot: create ---- *)

(* create, the early return condition: Path::new(&vm_id_file_path).exists() *)
fc_create_exists(p) ==
    /\ IsVm(p)
    /\ At(p, "c_exists")
    /\ Go(p, [proc[p] EXCEPT !.pc = IF idfile[Ident(p)] # NoFile THEN "c_probe" ELSE "c_gc"])
    /\ UNCHANGED <<cfg, Fs, Engine>>

(* create, early return: the VM exists and resume is set; report the ID    *)
(* read from the file.  start follows.                                     *)
fc_create_read(p) ==
    /\ IsVm(p)
    /\ At(p, "c_read")
    /\ IF idfile[Ident(p)] = NoFile
       THEN Finish(p, "IOError")
       ELSE Go(p, [proc[p] EXCEPT !.pc = "s_probe", !.vmid = idfile[Ident(p)]])
    /\ UNCHANGED <<cfg, Fs, Engine>>

(* create, the sanity check before the VM is set up *)
fc_create_sanity(p) ==
    /\ IsVm(p)
    /\ At(p, "c_sanity")
    /\ IF idfile[Ident(p)] # NoFile
       THEN Finish(p, "AlreadyRunning")
       ELSE Go(p, [proc[p] EXCEPT !.pc = "r_id0"])
    /\ UNCHANGED <<cfg, Fs, Engine>>

(* run_creation as it would be without the initial vm_id_file *)
run_creation_id0_unwritten(p) ==
    /\ IsVm(p)
    /\ At(p, "r_id0")
    /\ Go(p, [proc[p] EXCEPT !.vmid = Zero,
                             !.pc = IF cfg[VmProg].overlay THEN "r_ovlchk" ELSE "s_probe"])
    /\ UNCHANGED <<cfg, Fs, Engine>>

(* run_creation: create the initial vm_id_file with process ID 0 *)
run_creation_id0(p) ==
    /\ IsVm(p)
    /\ At(p, "r_id0")
    /\ idfile' = [idfile EXCEPT ![Ident(p)] = Zero]
    /\ Go(p, [proc[p] EXCEPT !.vmid = Zero,
                             !.pc = IF cfg[VmProg].overlay THEN "r_ovlchk" ELSE "s_probe"])
    /\ UNCHANGED <<cfg, stale, sock, ovl, Engine>>

(* run_creation: !Path::new(&vm_overlay_file).exists() || !resume *)
run_creation_overlay_check(p) ==
    /\ IsVm(p)
    /\ At(p, "r_ovlchk")
    /\ Go(p, [proc[p] EXCEPT
            !.pc = IF ovl[Ident(p)] = "none" \/ ~resume(p) THEN "r_ovlnew" ELSE "r_prov"])
    /\ UNCHANGED <<cfg, Fs, Engine>>

(* run_creation: File::create (truncating), seek, write the last byte *)
run_creation_overlay_create(p) ==
    /\ IsVm(p)
    /\ At(p, "r_ovlnew")
    /\ ovl' = [ovl EXCEPT ![Ident(p)] = "raw"]
    /\ Go(p, [proc[p] EXCEPT !.pc = "r_mkfs"])
    /\ UNCHANGED <<cfg, idfile, stale, sock, Engine>>

(* run_creation: mkfs.ext2 -F <overlay>; a failure is returned *)
run_creation_mkfs(p) ==
    /\ IsVm(p)
    /\ At(p, "r_mkfs")
    /\ \/ /\ ovl[Ident(p)] # "none"
          /\ ovl' = [ovl EXCEPT ![Ident(p)] = "fs"]
          /\ Go(p, [proc[p] EXCEPT !.pc = "r_prov"])
       \/ /\ UNCHANGED ovl
          /\ Finish(p, "CommandError")
    /\ UNCHANGED <<cfg, idfile, stale, sock, Engine>>

(* run_creation: mount_vm, sync_includes, umount_vm; a failure is returned *)
run_creation_provision(p) ==
    /\ IsVm(p)
    /\ At(p, "r_prov")
    /\ \/ /\ ovl[Ident(p)] = "fs"
          /\ Go(p, [proc[p] EXCEPT !.pc = "s_probe"])
       \/ Finish(p, "CommandError")
    /\ UNCHANGED <<cfg, Fs, Engine>>

(* ---- firecracker-pilot: start ---- *)

(* a start that is blocking whatever the runtime section says *)
is_blocking_always == TRUE

is_blocking == ~(cfg[VmProg].resume \/ cfg[VmProg].force_vsock)

(* start: vm_running(&vm_id) on the ID that create returned *)
fc_start(p) ==
    /\ IsVm(p)
    /\ At(p, "s_probe")
    /\ Go(p, [proc[p] EXCEPT !.pc = IF vm_running(proc[p].vmid) THEN "s_vsock" ELSE "s_spawn"])
    /\ UNCHANGED <<cfg, Fs, Engine>>

(* call_instance: firecracker.spawn(); the monitor binds the vsock socket  *)
(* of the identity.                                                        *)
call_instance_spawn(p) ==
    /\ IsVm(p)
    /\ At(p, "s_spawn")
    /\ Len(vms) < MaxPid
    /\ vms' = Append(vms, Ident(p))
    /\ vmLive' = vmLive \cup {Len(vms) + 1}
    /\ sock' = [sock EXCEPT ![Ident(p)] = TRUE]
    /\ Go(p, [proc[p] EXCEPT !.pc = "s_write", !.inst = Len(vms) + 1,
                             !.ops = Append(@, <<"firecracker", Len(vms) + 1>>)])
    /\ UNCHANGED <<cfg, idfile, stale, ovl, cts, ctExists, ctRunning>>

(* call_instance: File::create(vm_id_file)?.write_all(pid) *)
call_instance_write(p) ==
    /\ IsVm(p)
    /\ At(p, "s_write")
    /\ idfile' = [idfile EXCEPT ![Ident(p)] = <<"pid", proc[p].inst>>]
    /\ Go(p, [proc[p] EXCEPT !.pc = IF is_blocking THEN "s_wait" ELSE "s_vsock"])
    /\ UNCHANGED <<cfg, stale, sock, ovl, Engine>>

(* call_instance, blocking: handle_output(child.wait_with_output()) *)
call_instance_wait(p) ==
    /\ IsVm(p)
    /\ At(p, "s_wait")
    /\ proc[p].inst \notin vmLive
    /\ \E r \in {"Ok", "CommandError"} : Finish(p, r)
    /\ UNCHANGED <<cfg, Fs, Engine>>

(* execute_command_at_instance: wait for the socket, check the connection, *)
(* send the command; the retry loops give up with MaxTriesExceeded.        *)
execute_command_at_instance(p) ==
    /\ IsVm(p)
    /\ At(p, "s_vsock")
    /\ IF sock[Ident(p)] /\ \E n \in vmLive : vms[n] = Ident(p)
       THEN Go(p, [proc[p] EXCEPT !.pc = "done", !.res = "Ok",
                     !.ops = Append(@, <<"vsock">> \o
                                get_run_cmdline(<<target_app_path>>, proc[p].args))])
       ELSE Finish(p, "MaxTriesExceeded")
    /\ UNCHANGED <<cfg, Fs, Engine>>

(* the VM monitor process ends (guest reboot, kill, crash) *)
VmExit ==
    /\ \E n \in vmLive : vmLive' = vmLive \ {n}
    /\ UNCHANGED <<cfg, Fs, vms, cts, ctExists, ctRunning, proc>>

(* ---- podman-pilot: create ---- *)

(* create, the early return condition: Path::new(&container_cid_file).exists() *)
pm_create_exists(p) ==
    /\ IsCt(p)
    /\ At(p, "c_exists")
    /\ Go(p, [proc[p] EXCEPT !.pc = IF idfile[Ident(p)] # NoFile THEN "c_probe" ELSE "c_gc"])
    /\ UNCHANGED <<cfg, Fs, Engine>>

(* create, early return: the container exists and resume or attach is set; *)
(* report the ID read from the file.  start follows.                       *)
pm_create_read(p) ==
    /\ IsCt(p)
    /\ At(p, "c_read")
    /\ IF idfile[Ident(p)] = NoFile
       THEN Finish(p, "IOError")
       ELSE Go(p, [proc[p] EXCEPT !.pc = "s_probe", !.vmid = idfile[Ident(p)]])
    /\ UNCHANGED <<cfg, Fs, Engine>>

(* create as it would be without the check of the entry point *)
unknown_command_never(p) == FALSE

(* create: with resume a target_app_path of "/" names no command to exec *)
unknown_command(p) == resume(p) /\ cfg[proc[p].prog].target = "/"

(* create, the sanity check before the engine is called, and the check of  *)
(* the entry point while the arguments of podman create are set up         *)
pm_create_sanity(p) ==
    /\ IsCt(p)
    /\ At(p, "c_sanity")
    /\ IF idfile[Ident(p)] # NoFile
       THEN Finish(p, "AlreadyRunning")
       ELSE IF unknown_command(p)
       THEN Finish(p, "UnknownCommand")
       ELSE Go(p, [proc[p] EXCEPT !.pc = "r_create"])
    /\ UNCHANGED <<cfg, Fs, Engine>>

(* `podman create --cidfile <file> ...` succeeding: the engine refuses an  *)
(* existing cidfile; it creates the container and writes its ID to the     *)
(* file.                                                                   *)
EngineCreate(p, nextpc) ==
    /\ idfile[Ident(p)] = NoFile
    /\ Len(cts) < MaxCid
    /\ cts' = Append(cts, Ident(p))
    /\ ctExists' = ctExists \cup {Len(cts) + 1}
    /\ idfile' = [idfile EXCEPT ![Ident(p)] = <<"cid", Len(cts) + 1>>]
    /\ Go(p, [proc[p] EXCEPT !.pc = nextpc, !.inst = Len(cts) + 1,
                             !.vmid = <<"cid", Len(cts) + 1>>,
                             !.ops = Append(@, <<"create", "ok">>)])
    /\ UNCHANGED <<stale, sock, ovl, vms, vmLive, ctRunning>>

(* run_podman_creation: app.perform(), and what follows its failure: a     *)
(* permission error and, with resume, any other error lead to one retry.   *)
run_podman_creation_perform(p) ==
    /\ IsCt(p)
    /\ At(p, "r_create")
    /\ \/ EngineCreate(p, "r_prov")
       \/ /\ \E kind \in {"permission", "other"} :
                IF kind = "permission" \/ resume(p)
                THEN Go(p, [proc[p] EXCEPT !.pc = "r_retry",
                                           !.ops = Append(@, <<"create", kind>>)])
                ELSE Go(p, [proc[p] EXCEPT !.pc = "done", !.res = "CommandError",
                                           !.ops = Append(@, <<"create", kind>>)])
          /\ UNCHANGED <<Fs, Engine>>
    /\ UNCHANGED cfg

(* run_podman_creation: the second app.perform()? *)
run_podman_creation_retry(p) ==
    /\ IsCt(p)
    /\ At(p, "r_retry")
    /\ \/ EngineCreate(p, "r_prov")
       \/ /\ Go(p, [proc[p] EXCEPT !.pc = "done", !.res = "CommandError",
                                   !.ops = Append(@, <<"create", "other">>)])
          /\ UNCHANGED <<Fs, Engine>>
    /\ UNCHANGED cfg

(* run_podman_creation: provisioning of the created container; on failure *)
(* the container is removed (call_instance "rm") and the error returned.   *)
run_podman_creation_provision(p) ==
    /\ IsCt(p)
    /\ At(p, "r_prov")
    /\ \/ /\ Go(p, [proc[p] EXCEPT !.pc = "s_probe"])
          /\ UNCHANGED <<ctExists, ctRunning>>
       \/ /\ ctExists' = ctExists \ {proc[p].inst}
          /\ ctRunning' = ctRunning \ {proc[p].inst}
          /\ Go(p, [proc[p] EXCEPT !.pc = "done", !.res = "IOError",
                                   !.ops = Append(@, <<"rm", proc[p].inst>>)])
    /\ UNCHANGED <<cfg, Fs, vms, vmLive, cts>>

(* ---- podman-pilot: start ---- *)

(* start: container_running(cid) *)
pm_start_running(p) ==
    /\ IsCt(p)
    /\ At(p, "s_probe")
    /\ Go(p, [proc[p] EXCEPT !.pc = "s_exists",
                             !.is_running = container_running(proc[p].vmid)])
    /\ UNCHANGED <<cfg, Fs, Engine>>

(* start: container_exists(cid), then the choice of the action *)
pm_start_exists(p) ==
    /\ IsCt(p)
    /\ At(p, "s_exists")
    /\ Go(p, [proc[p] EXCEPT
            !.is_created = container_exists(proc[p].vmid),
            !.pc = IF proc[p].is_running
                   THEN IF attach(p) THEN "s_attach" ELSE "s_exec"
                   ELSE "s_start"])
    /\ UNCHANGED <<cfg, Fs, Engine>>

(* call_instance("attach"): podman attach <cid> *)
pm_call_instance_attach(p) ==
    /\ IsCt(p)
    /\ At(p, "s_attach")
    /\ Go(p, [proc[p] EXCEPT !.pc = "s_remove",
                             !.ops = Append(@, <<"attach", proc[p].vmid[2]>>)])
    /\ UNCHANGED <<cfg, Fs, Engine>>

(* call_instance("exec"): podman exec --interactive --tty <cid> <target>   *)
(* followed by get_run_cmdline                                             *)
pm_call_instance_exec(p) ==
    /\ IsCt(p)
    /\ At(p, "s_exec")
    /\ Go(p, [proc[p] EXCEPT !.pc = "s_remove",
                !.ops = Append(@, <<"exec", proc[p].vmid[2]>> \o
                           get_run_cmdline(<<cfg[CtProg].target>>, proc[p].args))])
    /\ UNCHANGED <<cfg, Fs, Engine>>

(* call_instance("start"): detached with resume (exec follows), attached   *)
(* otherwise (the call returns when the container has ended)               *)
pm_call_instance_start(p) ==
    /\ IsCt(p)
    /\ At(p, "s_start")
    /\ ctRunning' = IF proc[p].vmid[2] \in ctExists
                    THEN ctRunning \cup {proc[p].vmid[2]} ELSE ctRunning
    /\ Go(p, [proc[p] EXCEPT !.pc = IF resume(p) THEN "s_exec" ELSE "s_wait",
                             !.ops = Append(@, <<"start", proc[p].vmid[2]>>)])
    /\ UNCHANGED <<cfg, Fs, vms, vmLive, cts, ctExists>>

(* the attached start returns *)
pm_call_instance_wait(p) ==
    /\ IsCt(p)
    /\ At(p, "s_wait")
    /\ proc[p].vmid[2] \notin ctRunning
    /\ Go(p, [proc[p] EXCEPT !.pc = "s_remove"])
    /\ UNCHANGED <<cfg, Fs, Engine>>

(* start: call_instance("rm_force") after an attached start unless attach  *)
(* is set and the container existed, or at the end with %remove; then Ok.  *)
pm_start_remove(p) ==
    /\ IsCt(p)
    /\ At(p, "s_remove")
    /\ LET after_start == ~proc[p].is_running /\ ~resume(p)
                          /\ (~attach(p) \/ ~proc[p].is_created)
           cid == proc[p].vmid[2]
       IN  IF after_start \/ "%remove" \in get_pilot_run_options(proc[p].args)
           THEN /\ ctExists' = ctExists \ {cid}
                /\ ctRunning' = ctRunning \ {cid}
                /\ Go(p, [proc[p] EXCEPT !.pc = "done", !.res = "Ok", !.is_removed = TRUE,
                                         !.ops = Append(@, <<"rm_force", cid>>)])
           ELSE /\ UNCHANGED <<ctExists, ctRunning>>
                /\ Finish(p, "Ok")
    /\ UNCHANGED <<cfg, Fs, vms, vmLive, cts>>

(* the main process of a running container ends *)
CtExit ==
    /\ \E n \in ctRunning : ctRunning' = ctRunning \ {n}
    /\ UNCHANGED <<cfg, Fs, vms, vmLive, cts, ctExists, proc>>

(* ---- the next-state relation ---- *)

ViewNext(i) ==
    <<idfile'[i], sock'[i], ovl'[i],
      {n \in vmLive' : vms'[n] = i},
      {n \in ctExists' : cts'[n] = i},
      {n \in ctRunning' : cts'[n] = i}>>

(* dist[q] records that, since q was invoked, somebody other than q has    *)
(* changed what q can observe of its identity.                             *)
Disturb(actors) ==
    dist' = [q \in Procs |->
               IF proc'[q] = Returned THEN FALSE
               ELSE IF q \in actors
               THEN IF proc[q].pc \in {"idle", "done"} THEN FALSE ELSE dist[q]
               ELSE dist[q] \/ (proc[q].pc # "idle" /\ ViewNext(Ident(q)) # View(Ident(q)))]

StepGc(p) ==
    gc(p)

StepVm(p) ==
    \/ fc_main(p)
    \/ gc_meta_files_probe(p)
    \/ gc_meta_files_remove(p)
    \/ gc_meta_files_rest(p)
    \/ fc_create_exists(p)
    \/ fc_create_read(p)
    \/ fc_create_sanity(p)
    \/ run_creation_id0(p)
    \/ run_creation_overlay_check(p)
    \/ run_creation_overlay_create(p)
    \/ run_creation_mkfs(p)
    \/ run_creation_provision(p)
    \/ fc_start(p)
    \/ call_instance_spawn(p)
    \/ call_instance_write(p)
    \/ call_instance_wait(p)
    \/ execute_command_at_instance(p)

StepCt(p) ==
    \/ pm_main(p)
    \/ gc_cid_file_probe(p)
    \/ gc_cid_file_remove(p)
    \/ gc_cid_file_rest(p)
    \/ pm_create_exists(p)
    \/ pm_create_read(p)
    \/ pm_create_sanity(p)
    \/ run_podman_creation_perform(p)
    \/ run_podman_creation_retry(p)
    \/ run_podman_creation_provision(p)
    \/ pm_start_running(p)
    \/ pm_start_exists(p)
    \/ pm_call_instance_attach(p)
    \/ pm_call_instance_exec(p)
    \/ pm_call_instance_start(p)
    \/ pm_call_instance_wait(p)
    \/ pm_start_remove(p)

(* both pilots on one host *)
Next ==
    \/ \E p \in Procs : (StepVm(p) \/ StepCt(p) \/ StepGc(p)) /\ Disturb({p}) /\ UNCHANGED Side
    \/ VmExit /\ Disturb({}) /\ UNCHANGED Side
    \/ CtExit /\ Disturb({}) /\ UNCHANGED Side

Spec == Init /\ [][Next]_vars

(* The same host when invocations are made one after the other: one is     *)
(* made only when every earlier one has returned or is blocked in the      *)
(* foreground run of its instance.  Instances still end at any time.       *)
Active == {p \in Procs : proc[p].pc \notin {"idle", "done", "s_wait"}}
OneAtATime == Cardinality(Active) <= 1
NextSeq == Next /\ OneAtATime'

SpecSeq == Init /\ [][NextSeq]_vars

(* ---- properties ---- *)

Done(p) == proc[p].pc = "done"
Own(p) == idfile[Ident(p)]
LiveVms(i) == {n \in vmLive : vms[n] = i}
Containers(i) == {n \in ctExists : cts[n] = i}

(* C1: for any interleaving of invocations on one identity the existence   *)
(* check of the ID file serializes the create paths: at no time are there  *)
(* two VM monitors running, or two containers, that were launched for the  *)
(* same identity.                                                          *)
C1_one_instance_per_identity ==
    \A i \in Idents : Cardinality(LiveVms(i)) <= 1 /\ Cardinality(Containers(i)) <= 1

(* C2: a firecracker-pilot invocation whose check of the ID file reads the *)
(* placeholder "0" while another invocation on the identity is between its *)
(* write of "0" and the launch of its VM starts no creation of its own and *)
(* returns AlreadyRunning.                                                 *)
C2_placeholder_fails_fast ==
    \A p \in Procs :
        proc[p].zero =>
            /\ proc[p].vmid # Zero
            /\ Done(p) => proc[p].res = "AlreadyRunning"

(* An instance of identity i is alive (a running VM monitor, a container   *)
(* the engine knows) or its creation is in progress.                       *)
InUse(i) ==
    \/ LiveVms(i) # {}
    \/ Containers(i) # {}
    \/ \E q \in Procs : Ident(q) = i /\ Creating(q)

(* C3: no step of either pilot (only garbage collection removes files)     *)
(* removes the ID file, the socket or the overlay image of an identity     *)
(* whose instance is alive or in creation.                                 *)
C3_gc_spares_instances_in_use ==
    [][\A i \in Idents :
          InUse(i) =>
              /\ idfile[i] # NoFile => idfile'[i] # NoFile
              /\ sock[i] => sock'[i]
              /\ ovl[i] # "none" => ovl'[i] # "none"]_vars

(* The configured mode forbids the reuse of a running instance. *)
ForbidsReuse(p) == IF IsVm(p) THEN ~resume(p) ELSE ~resume(p) /\ ~attach(p)

(* The steps of create up to its sanity check. *)
BeforeSetup == {"c_exists", "c_probe", "c_rm", "c_gc", "g_probe", "g_rm", "g_rest", "c_sanity"}

(* What C4 asks of an invocation p in every respect but the socket. *)
AlreadyRunningOutcome(p) ==
    /\ proc[p].pc \in BeforeSetup \cup {"done"}
    /\ proc[p].ops = <<>>
    /\ Done(p) => proc[p].res = "AlreadyRunning"
    /\ Own(p) = proc[p].view0[1]
    /\ LiveVms(Ident(p)) = proc[p].view0[4]
    /\ Containers(Ident(p)) = proc[p].view0[5]
    /\ {n \in ctRunning : cts[n] = Ident(p)} = proc[p].view0[6]

(* C4: when create finds the ID file of its identity and the instance      *)
(* alive, the mode forbids reuse, and nobody else changes the identity's   *)
(* files or instances while the invocation runs, then the invocation never *)
(* gets past the sanity check, issues no engine call, returns              *)
(* AlreadyRunning and leaves the ID file and the running instance, its     *)
(* socket included, as they were.                                          *)
C4_already_running ==
    \A p \in Procs :
        proc[p].probe = "alive" /\ ForbidsReuse(p) /\ ~dist[p] =>
            AlreadyRunningOutcome(p) /\ sock[Ident(p)] = proc[p].view0[2]

(* The part of C4 that the code keeps: all of it but the socket. *)
C4_except_socket ==
    \A p \in Procs :
        proc[p].probe = "alive" /\ ForbidsReuse(p) /\ ~dist[p] => AlreadyRunningOutcome(p)

(* The invocation has gone into the creation of an instance: the VM        *)
(* placeholder is its own, or its first engine call was a create.          *)
TookCreatePath(p) ==
    IF IsVm(p) THEN proc[p].vmid = Zero
    ELSE proc[p].ops # <<>> /\ proc[p].ops[1][1] = "create"

(* C5: when the ID file of the identity exists but its instance does not   *)
(* (and nobody else changes the identity's files or instances while the    *)
(* invocation runs), the invocation removes the ID file, for a non-resume  *)
(* VM also the overlay image, before it does anything else; it never takes *)
(* the reuse path and never returns AlreadyRunning, and once past the      *)
(* sanity check it is on the create path (its first step there is the     *)
(* write of "0", or the engine's create).                                  *)
C5_stale_id_collected ==
    \A p \in Procs :
        proc[p].probe = "dead" /\ ~dist[p] =>
            /\ proc[p].pc # "c_read"
            /\ proc[p].pc # "c_rm" => Ident(p) \in proc[p].removed
            /\ proc[p].pc \in BeforeSetup \ {"c_rm"} =>
                  /\ Own(p) = NoFile
                  /\ IsVm(p) /\ ~resume(p) => ovl[Ident(p)] = "none"
            /\ proc[p].pc \notin BeforeSetup \cup {"r_id0", "r_create"} => TookCreatePath(p)
            /\ Done(p) => proc[p].res # "AlreadyRunning"

(* a VM invocation has replaced a stale ID file and overlay and run its    *)
(* new VM; a container invocation has replaced a stale CID file            *)
C5_witness ==
    \E p \in Procs :
        /\ IsVm(p) /\ ~resume(p) /\ Done(p) /\ proc[p].probe = "dead" /\ ~dist[p]
        /\ proc[p].view0[3] = "fs" /\ proc[p].res = "Ok"
        /\ Own(p) = <<"pid", proc[p].inst>>
C5_witness_container ==
    \E p \in Procs :
        /\ IsCt(p) /\ Done(p) /\ proc[p].probe = "dead" /\ ~dist[p]
        /\ proc[p].res = "Ok" /\ proc[p].view0[1] # NoFile /\ proc[p].inst # 0

(* The engine calls of kind k that an invocation has issued. *)
Calls(p, k) == SelectSeq(proc[p].ops, LAMBDA op : op[1] = k)

(* The arguments an invocation called with args forwards: all but the      *)
(* @NAME and the %option tokens.                                           *)
Forwarded(args) == SelectSeq(args, LAMBDA tok : tok \in {"x", "y"})

(* An undisturbed invocation has returned after exactly one exec on the    *)
(* container ID recorded in the CID file, with the target path and the     *)
(* forwarded arguments, and without any create or provisioning.            *)
OneExecOnRecorded(p) ==
    /\ Calls(p, "create") = <<>>
    /\ Calls(p, "rm") = <<>>
    /\ proc[p].pc \notin {"r_create", "r_retry", "r_prov"}
    /\ Done(p) =>
          /\ proc[p].view0[1][1] = "cid"
          /\ Calls(p, "exec") =
                << <<"exec", proc[p].view0[1][2], "/usr/bin/app">> \o Forwarded(proc[p].args) >>

(* C6 as amended: container path with resume set and attach not set: when  *)
(* the CID file exists and the probe shows the container alive (and nobody *)
(* else disturbs the invocation), there is no create and no provisioning,  *)
(* and the invocation issues exactly one exec, on the recorded container   *)
(* ID, with the target path followed by its forwarded arguments.           *)
C6_resume_execs_once ==
    \A p \in Procs :
        IsCt(p) /\ resume(p) /\ ~attach(p) /\ proc[p].probe = "alive" /\ ~dist[p] =>
            OneExecOnRecorded(p)

(* C6 as stated: the same for every container with resume set. *)
C6_as_stated ==
    \A p \in Procs :
        IsCt(p) /\ resume(p) /\ proc[p].probe = "alive" /\ ~dist[p] =>
            OneExecOnRecorded(p)

(* a resumed invocation called with @NAME and %option tokens has run its   *)
(* exec in the container an earlier invocation created                     *)
C6_witness ==
    \E p \in Procs :
        /\ IsCt(p) /\ resume(p) /\ ~attach(p) /\ proc[p].probe = "alive" /\ ~dist[p]
        /\ Done(p) /\ proc[p].args = <<"@t", "%interactive", "y">>
        /\ Calls(p, "exec") = << <<"exec", 1, "/usr/bin/app", "y">> >>

(* create has returned Ok from the creation of a new instance and start    *)
(* has not acted yet.                                                      *)
CreateReturned(p) == proc[p].pc = "s_probe" /\ TookCreatePath(p)

(* C7 as amended: after a successful create (and while nobody else         *)
(* disturbs the invocation) the ID file of the identity exists; on the     *)
(* container path it holds the ID the engine assigned to the container it  *)
(* created for the identity; on the VM path it holds the placeholder "0",  *)
(* which is also the ID that create returns: no VM monitor runs yet.       *)
C7_id_file_after_create ==
    \A p \in Procs :
        ~dist[p] =>
            /\ CreateReturned(p) /\ IsCt(p) =>
                  /\ Own(p) = <<"cid", proc[p].inst>>
                  /\ proc[p].inst \in ctExists /\ cts[proc[p].inst] = Ident(p)
            /\ CreateReturned(p) /\ IsVm(p) => Own(p) = Zero /\ proc[p].vmid = Zero

(* C7 as stated: after a successful create the ID file exists and its      *)
(* content refers to an instance the engine knows (a running VM monitor, a *)
(* container).                                                             *)
C7_as_stated ==
    \A p \in Procs :
        CreateReturned(p) /\ ~dist[p] => Own(p) # NoFile /\ Refers(Own(p))

(* create has returned from the creation of a VM with a provisioned overlay *)
C7_witness ==
    \E p \in Procs :
        /\ IsVm(p) /\ CreateReturned(p) /\ ~dist[p]
        /\ ovl[Ident(p)] = "fs" /\ Own(p) = Zero

(* C8: a step that removes the ID file of an instance that has run and is  *)
(* gone (the per-identity check of create, or the sweep of gc) leaves no   *)
(* socket of that identity and, if it is a VM not configured for resume,   *)
(* no overlay image of it.                                                 *)
C8_gc_leaves_nothing ==
    [][\A i \in Idents :
          idfile[i] \notin {NoFile, Zero} /\ idfile'[i] = NoFile /\ ~InUse(i) =>
              /\ ~sock'[i]
              /\ i[1] = VmProg /\ ~cfg[VmProg].resume => ovl'[i] = "none"]_vars

(* The invocation is in the sweep of gc over the ID directory. *)
Sweeping(p) == proc[p].pc \in {"g_probe", "g_rm", "g_rest"}

(* The invocation was made when the ID directory held more than 20 files,  *)
(* none of which referred to an instance.                                  *)
ManyDead(p) == proc[p].pc # "idle" /\ proc[p].n0 > 20 /\ proc[p].dead0

(* What C9 asks of such an invocation: after gc the directory is empty,    *)
(* and the invocation goes on to create its instance.                      *)
SweptClean(p) ==
    /\ proc[p].pc = "c_sanity" => DirCount = 0
    /\ proc[p].pc \notin BeforeSetup \cup {"r_id0", "r_create"} => TookCreatePath(p)
    /\ Done(p) => proc[p].res # "AlreadyRunning"

(* The threshold part of C9: gc sweeps only when it counted more than 20   *)
(* entries; when it counted 20 or fewer, the invocation is never in the    *)
(* sweep and has removed no ID file but that of its own identity.          *)
SweepOnlyAboveThreshold(p) ==
    /\ Sweeping(p) => proc[p].listed > 20
    /\ proc[p].listed \in 0..20 => ~Sweeping(p) /\ proc[p].removed \subseteq {Ident(p)}
    /\ proc[p].listed = -1 => proc[p].removed \subseteq {Ident(p)}

(* C9 as amended: the threshold part, and: an invocation made when the     *)
(* directory holds more than 20 ID files, all of dead instances and none   *)
(* of its own identity, removes all of them and then creates its instance. *)
C9_sweep_above_threshold ==
    \A p \in Procs :
        /\ SweepOnlyAboveThreshold(p)
        /\ ManyDead(p) /\ proc[p].view0[1] = NoFile => SweptClean(p)

(* C9 as stated: the same, whatever identity the ID files belong to. *)
C9_as_stated ==
    \A p \in Procs :
        /\ SweepOnlyAboveThreshold(p)
        /\ ManyDead(p) => SweptClean(p)

(* an invocation found 21 dead ID files of other identities, removed them  *)
(* all and ran its new instance                                            *)
C9_witness ==
    \E p \in Procs :
        /\ ManyDead(p) /\ proc[p].view0[1] = NoFile /\ proc[p].n0 = 21
        /\ Done(p) /\ proc[p].res = "Ok" /\ proc[p].removed # {} /\ stale = 0

(* C10: for a resume VM an overlay image that exists and is formatted is   *)
(* never deleted, truncated or reformatted: no step takes it out of that   *)
(* state.  (The other half of the claim: a non-resume create always goes   *)
(* through the creation of a fresh image.)                                 *)
C10_resume_overlay_kept ==
    [][/\ cfg[VmProg].resume =>
             \A i \in Idents : ovl[i] = "fs" => ovl'[i] = "fs"
       /\ \A p \in Procs :
             /\ IsVm(p) /\ ~resume(p) /\ At(p, "r_ovlchk")
             /\ proc'[p].pc # "r_ovlchk"
             => proc'[p].pc = "r_ovlnew"]_vars

(* ---- the file names of an invocation ---- *)

(* The lifecycle state before any invocation, for the detailed views. *)
MainIdle ==
    /\ cfg = [pr \in Progs |-> NoConfig]
    /\ idfile = [i \in Idents |-> NoFile]
    /\ stale = 0
    /\ sock = [i \in Idents |-> FALSE]
    /\ ovl = [i \in Idents |-> "none"]
    /\ vms = <<>> /\ vmLive = {} /\ cts = <<>> /\ ctExists = {} /\ ctRunning = {}
    /\ proc = [p \in Procs |-> Idle]
    /\ dist = [p \in Procs |-> FALSE]

(* Strings are sequences of characters here, so that format! is the        *)
(* concatenation it is in the code.                                        *)
MaxArgs == 2           \* tokens on a command line

ProgNames == {<<"a">>, <<"a", "_", "u">>}
UserNames == {<<"v">>, <<"u", "_", "v">>}
Tokens == {<<"@", "t">>, <<"@", "t", "@", "t">>, <<"x">>}
Argvs == UNION {[1..n -> Tokens] : n \in 0..MaxArgs}

starts_with(str, ch) == Len(str) > 0 /\ str[1] = ch
IsTag(tok) == starts_with(tok, "@")

RECURSIVE Join(_)
Join(strs) == IF strs = <<>> THEN <<>> ELSE Head(strs) \o Join(Tail(strs))

(* firecracker get_meta_name: meta_file = program_name, then                *)
(* format!("{meta_file}{arg}") for every arg that starts with '@'           *)
meta_file(program_name, args) == program_name \o Join(SelectSeq(args, IsTag))

(* firecracker get_meta_file_name: "{target_dir}/{meta name}.{extension}"   *)
get_meta_file_name(program_name, args, target_dir, extension) ==
    <<target_dir, "/">> \o meta_file(program_name, args) \o <<".", extension>>

(* firecracker: "/run/sci_cmd_{meta name}.sock" *)
vsock_uds_path(program_name, args) ==
    <<"/run/sci_cmd_">> \o meta_file(program_name, args) \o <<".sock">>

(* podman create: suffix is the first @NAME argument or empty;              *)
(* "{ids_dir}/{program_name}{suffix}_{user}.cid"                            *)
suffix(args) ==
    LET name == SelectSeq(args, IsTag) IN IF name = <<>> THEN <<>> ELSE Head(name)
container_cid_file(program_name, args, user) ==
    <<"/tmp/flakes", "/">> \o program_name \o suffix(args) \o <<"_">> \o user \o <<".cid">>

(* The files create and start of one invocation work on under its own name. *)
FilesOf(inv) ==
    IF inv.pilot = "podman"
    THEN {container_cid_file(inv.program_name, inv.args, inv.user)}
    ELSE {get_meta_file_name(inv.program_name, inv.args, "/tmp/flakes", "vmid"),
          vsock_uds_path(inv.program_name, inv.args),
          get_meta_file_name(inv.program_name, inv.args, "/var/lib/firecracker/storage", "ext2")}

Invocations ==
    [pilot : {"podman", "firecracker"}, program_name : ProgNames, args : Argvs,
     user : UserNames]

InitNames ==
    /\ MainIdle
    /\ prov = Off /\ ex = Off /\ vs = Off /\ MoreOff
    /\ idn \in [pc : {"args"}, a : Invocations, b : Invocations, files : {<<{}, {}>>}]

(* both invocations derive their file names *)
derive_names ==
    /\ idn.pc = "args"
    /\ idn' = [idn EXCEPT !.pc = "named", !.files = <<FilesOf(idn.a), FilesOf(idn.b)>>]
    /\ UNCHANGED <<Main, prov, ex, vs, More>>

NextNames == derive_names
SpecNames == InitNames /\ [][NextNames]_vars

(* The identity of an invocation as the specification defines it. *)
Identity(inv) == <<inv.program_name, SelectSeq(inv.args, IsTag), inv.user>>

(* C11: two invocations of one pilot with distinct identities (program     *)
(* basename, ordered @TAG tokens, caller user name) share no ID file, no   *)
(* guest-bridge socket path and no overlay image path.                     *)
C11_distinct_identities_distinct_files ==
    idn.pc = "named" /\ idn.a.pilot = idn.b.pilot /\ Identity(idn.a) # Identity(idn.b)
        => idn.files[1] \cap idn.files[2] = {}

(* ---- provisioning of a created instance, step by step ---- *)

MaxLayers == 2         \* delta layers of a container configuration
MaxTars == 2           \* tar archives of an include section

LayerLists == {SubSeq(<<"l1", "l2", "l3">>, 1, n) : n \in 0..MaxLayers}
TarLists == {SubSeq(<<"t1", "t2", "t3">>, 1, n) : n \in 0..MaxTars}
PathLists == {<<>>, <<"p1">>}

(* the layer list with the main image put first instead of last *)
layers_main_first(c) == <<"app">> \o c.layers

(* config().layers() chained with config().container.name *)
layers(c) == c.layers \o <<"app">>

(* the image the instance is created from:                                 *)
(* config().container.base_container.unwrap_or(config().container.name)    *)
create_image(c) == IF c.is_delta_container THEN "base" ELSE "app"

(* config(): container section (base_container, layers,                    *)
(* check_host_dependencies), vm engine section (overlay_size), include     *)
(* section; and the pilot option %ignore_sync_error.                       *)
ProvConfigs ==
    [pilot : {"podman"}, is_delta_container : BOOLEAN, check_host_dependencies : BOOLEAN,
     layers : LayerLists, tars : TarLists, paths : PathLists,
     ignore_sync_error : BOOLEAN, overlay_size : {FALSE}]
    \cup
    [pilot : {"firecracker"}, is_delta_container : {FALSE}, check_host_dependencies : {FALSE},
     layers : {<<>>}, tars : TarLists, paths : PathLists,
     ignore_sync_error : {FALSE}, overlay_size : BOOLEAN]

has_includes(c) == c.tars # <<>> \/ c.paths # <<>>

(* The instance has been created (podman create has written the CID file,  *)
(* run_creation has written "0" and made the overlay image); provisioning  *)
(* is about to begin.                                                      *)
InitProv ==
    /\ MainIdle
    /\ idn = Off /\ ex = Off /\ vs = Off /\ MoreOff
    /\ \E c \in ProvConfigs :
          prov = [pc |-> "begin", conf |-> c, mounts |-> {}, log |-> <<>>,
                  provisioning_failed |-> "none", removed_files |-> <<>>,
                  todo |-> layers(c), lower |-> create_image(c),
                  inc |-> [k \in 1..Len(c.tars) |-> <<"tar", c.tars[k]>>]
                          \o [k \in 1..Len(c.paths) |-> <<"path", c.paths[k]>>],
                  container |-> (c.pilot = "podman"),
                  failed_step |-> "none", res |-> ""]

IsPm == prov.conf.pilot = "podman"
Step(r) == /\ prov' = r
           /\ UNCHANGED <<Main, idn, ex, vs, More>>
Logged(r, entry) == [r EXCEPT !.log = Append(@, entry)]

(* an error leaves the function at once (the ? operator) *)
Return(r, step, err) == [r EXCEPT !.pc = "done", !.res = err, !.failed_step = step]

(* what follows the system dependencies, the removed list and the layers   *)
PcIncludes(r) ==
    IF has_includes(r.conf) /\ r.provisioning_failed = "none" THEN "includes" ELSE "umount"
PcLayers(r) ==
    IF r.conf.is_delta_container /\ r.provisioning_failed = "none"
    THEN "layer_mount" ELSE PcIncludes(r)
PcRemoved(r) ==
    IF r.provisioning_failed = "none" THEN "removed_read" ELSE PcLayers(r)

(* run_podman_creation: provisioning is entered only for a delta container *)
(* or with check_host_dependencies                                         *)
run_podman_creation_begin ==
    /\ prov.pc = "begin" /\ IsPm
    /\ Step([prov EXCEPT !.pc = IF prov.conf.is_delta_container
                                    \/ prov.conf.check_host_dependencies
                                 THEN "mount" ELSE "finish"])

(* mount_container(&cid, false); on failure call_instance("rm") and return *)
mount_instance ==
    /\ prov.pc = "mount" /\ IsPm
    /\ \/ Step(Logged([prov EXCEPT !.pc = "sysfiles", !.mounts = @ \cup {"instance"}],
                      <<"mount", "instance">>))
       \/ Step(Return([prov EXCEPT !.container = FALSE], "mount", "CommandError"))

(* the failure of the system dependency step as it would be if the option  *)
(* %ignore_sync_error were not looked at                                   *)
system_failure_always_fatal(r) == [r EXCEPT !.provisioning_failed = "IOError"]

(* if ! ignore_sync_error { provisioning_failed = Some(error) } *)
system_failure(r) ==
    IF ~r.conf.ignore_sync_error THEN [r EXCEPT !.provisioning_failed = "IOError"] ELSE r

(* build_system_dependencies: no systemfiles script, a list, or an error *)
build_system_dependencies ==
    /\ prov.pc = "sysfiles" /\ IsPm
    /\ \/ \E out \in {"no script", "list"} :
             Step(Logged([prov EXCEPT !.pc = "syshost"], <<"systemfiles", out>>))
       \/ LET r == Logged(system_failure(prov), <<"systemfiles", "failed">>)
          IN  Step([r EXCEPT !.pc = PcRemoved(r)])

(* sync_host of the system files list (ignore_missing = false) *)
sync_host_system ==
    /\ prov.pc = "syshost" /\ IsPm
    /\ \/ LET r == Logged(prov, <<"sync_host", "system", "ok">>)
          IN  Step([r EXCEPT !.pc = PcRemoved(r)])
       \/ LET r == Logged(system_failure(prov), <<"sync_host", "system", "failed">>)
          IN  Step([r EXCEPT !.pc = PcRemoved(r)])

(* update_removed_files(&instance_mount_point, &removed_files)? *)
update_removed_files_instance ==
    /\ prov.pc = "removed_read" /\ IsPm
    /\ \/ Step(Logged([prov EXCEPT !.pc = "removed_sync"], <<"removed", "instance">>))
       \/ Step(Return(prov, "removed_read", "IO"))

(* sync_host of the instance's removed list (ignore_missing = true)? *)
sync_host_removed ==
    /\ prov.pc = "removed_sync" /\ IsPm
    /\ \/ LET r == Logged(prov, <<"sync_host", "removed", "ok">>)
          IN  Step([r EXCEPT !.pc = PcLayers(r)])
       \/ Step(Return(prov, "removed_sync", "IO"))

(* for layer in layers: mount_container(layer, true)? *)
mount_layer ==
    /\ prov.pc = "layer_mount" /\ IsPm
    /\ \/ Step(Logged([prov EXCEPT !.pc = "layer_read", !.mounts = @ \cup {Head(prov.todo)}],
                      <<"mount", Head(prov.todo)>>))
       \/ Step(Return(prov, "layer_mount", "CommandError"))

(* update_removed_files(&app_mount_point, &removed_files)? *)
update_removed_files_layer ==
    /\ prov.pc = "layer_read" /\ IsPm
    /\ \/ Step([prov EXCEPT !.pc = "layer_rsync",
                            !.removed_files = Append(@, Head(prov.todo))])
       \/ Step(Return(prov, "layer_read", "IO"))

(* IO::sync_data(app_mount_point/, instance_mount_point/)? *)
sync_data_layer ==
    /\ prov.pc = "layer_rsync" /\ IsPm
    /\ \/ Step(Logged([prov EXCEPT !.pc = "layer_umount"], <<"rsync", Head(prov.todo)>>))
       \/ Step(Return(prov, "layer_rsync", "SyncFailed"))

(* let _ = umount_container(layer, true); next layer *)
umount_layer ==
    /\ prov.pc = "layer_umount" /\ IsPm
    /\ Step(Logged([prov EXCEPT !.mounts = @ \ {Head(prov.todo)}, !.todo = Tail(@),
                                !.pc = IF Tail(prov.todo) # <<>> THEN "layer_mount"
                                       ELSE "layers_sync"],
                   <<"umount", Head(prov.todo)>>))

(* sync_host of the removed lists accumulated from the layers? *)
sync_host_layers ==
    /\ prov.pc = "layers_sync" /\ IsPm
    /\ \/ LET r == Logged(prov, <<"sync_host", "layers", prov.removed_files>>)
          IN  Step([r EXCEPT !.pc = PcIncludes(r)])
       \/ Step(Return(prov, "layers_sync", "IO"))

(* IO::sync_includes: tar -C target -xf for every tar, then rsync --mkpath *)
(* for every path; the first failure ends it.  podman records the error,   *)
(* firecracker returns it.                                                 *)
sync_includes ==
    /\ prov.pc = "includes"
    /\ \/ Step(Logged([prov EXCEPT !.inc = Tail(@),
                                   !.pc = IF Tail(prov.inc) # <<>> THEN "includes"
                                          ELSE "umount"],
                      Head(prov.inc)))
       \/ IF IsPm
          THEN Step([prov EXCEPT !.provisioning_failed = "CommandError",
                                 !.failed_step = "includes", !.pc = "umount"])
          ELSE Step(Return(prov, "includes", "CommandError"))

(* let _ = umount_container(&cid, false) *)
umount_instance ==
    /\ prov.pc = "umount" /\ IsPm
    /\ Step(Logged([prov EXCEPT !.mounts = @ \ {"instance"}, !.pc = "finish"],
                   <<"umount", "instance">>))

(* provisioning_failed: call_instance("rm") and return the error; else cid *)
run_podman_creation_finish ==
    /\ prov.pc = "finish" /\ IsPm
    /\ IF prov.provisioning_failed # "none"
       THEN Step([prov EXCEPT !.pc = "done", !.res = prov.provisioning_failed,
                              !.container = FALSE,
                              !.failed_step = IF @ = "none" THEN "system" ELSE @])
       ELSE Step([prov EXCEPT !.pc = "done", !.res = "Ok"])

(* run_creation: the VM is provisioned only with an overlay *)
run_creation_provision_begin ==
    /\ prov.pc = "begin" /\ ~IsPm
    /\ IF prov.conf.overlay_size
       THEN Step([prov EXCEPT !.pc = "mount_image"])
       ELSE Step([prov EXCEPT !.pc = "done", !.res = "Ok"])

(* mount_vm: mount <rootfs image> <tmp>/image *)
mount_vm_image ==
    /\ prov.pc = "mount_image" /\ ~IsPm
    /\ \/ Step(Logged([prov EXCEPT !.pc = "mount_overlay", !.mounts = @ \cup {"image"}],
                      <<"mount", "image">>))
       \/ Step(Return(prov, "mount_image", "CommandError"))

(* mount_vm: mount <overlay image> <tmp>/overlayroot *)
mount_vm_overlay ==
    /\ prov.pc = "mount_overlay" /\ ~IsPm
    /\ \/ Step(Logged([prov EXCEPT !.pc = "mount_root", !.mounts = @ \cup {"overlayroot"}],
                      <<"mount", "overlayroot">>))
       \/ Step(Return(prov, "mount_overlay", "CommandError"))

(* mount_vm: mount -t overlay overlayfs <tmp>/overlayroot/rootfs *)
mount_vm_root ==
    /\ prov.pc = "mount_root" /\ ~IsPm
    /\ \/ Step(Logged([prov EXCEPT !.pc = IF has_includes(prov.conf) THEN "includes"
                                          ELSE "umount",
                                   !.mounts = @ \cup {"rootfs"}],
                      <<"mount", "rootfs">>))
       \/ Step(Return(prov, "mount_root", "CommandError"))

(* umount_vm: rootfs, overlayroot, image *)
umount_vm ==
    /\ prov.pc = "umount" /\ ~IsPm
    /\ Step(Logged([prov EXCEPT !.mounts = {}, !.pc = "done", !.res = "Ok"],
                   <<"umount", "vm">>))

NextProv ==
    \/ run_podman_creation_begin
    \/ mount_instance
    \/ build_system_dependencies
    \/ sync_host_system
    \/ update_removed_files_instance
    \/ sync_host_removed
    \/ mount_layer
    \/ update_removed_files_layer
    \/ sync_data_layer
    \/ umount_layer
    \/ sync_host_layers
    \/ sync_includes
    \/ umount_instance
    \/ run_podman_creation_finish
    \/ run_creation_provision_begin
    \/ mount_vm_image
    \/ mount_vm_overlay
    \/ mount_vm_root
    \/ umount_vm

SpecProv == InitProv /\ [][NextProv]_vars

(* C12: when a provisioning step fails, create returns with no mount left. *)
C12_no_mount_left_on_failure ==
    prov.pc = "done" /\ prov.res # "Ok" => prov.mounts = {}

(* C13: the step in which the provisioning of a created instance fails     *)
(* (run_creation_provision, run_podman_creation_provision returning an     *)
(* error) leaves no ID file of the identity.                               *)
C13_no_id_file_after_failed_provisioning ==
    [][\A p \in Procs :
          proc[p].pc = "r_prov" /\ proc'[p].pc = "done"
              => idfile'[Ident(p)] = NoFile]_vars

(* every tar of include.tar extracted and every path of include.path synced *)
InLog(entry) == \E j \in 1..Len(prov.log) : prov.log[j] = entry
IncludesSynced ==
    /\ \A k \in 1..Len(prov.conf.tars) : InLog(<<"tar", prov.conf.tars[k]>>)
    /\ \A k \in 1..Len(prov.conf.paths) : InLog(<<"path", prov.conf.paths[k]>>)

(* C14: when create has succeeded for a configuration with includes, every *)
(* tar has been extracted and every path synced into the instance.         *)
C14_includes_synced_before_start ==
    prov.pc = "done" /\ prov.res = "Ok" /\ has_includes(prov.conf) => IncludesSynced

(* the system dependency step (systemfiles script, sync of its list) failed *)
SystemFailed ==
    InLog(<<"systemfiles", "failed">>) \/ InLog(<<"sync_host", "system", "failed">>)

(* a step that follows the system dependencies: removed list, layers, includes *)
IsLaterStep(entry) ==
    \/ entry[1] \in {"removed", "rsync", "tar", "path"}
    \/ entry[1] = "sync_host" /\ entry[2] \in {"removed", "layers"}
    \/ entry[1] \in {"mount", "umount"} /\ entry[2] # "instance"

(* C15 (container provisioning): after a failure of the system dependency  *)
(* step, without %ignore_sync_error no later step runs and create ends     *)
(* with the error and the container removed; with the option the later     *)
(* steps run and create succeeds unless one of them fails.                 *)
C15_system_sync_failure ==
    IsPm /\ SystemFailed =>
        IF ~prov.conf.ignore_sync_error
        THEN /\ \A j \in 1..Len(prov.log) : ~IsLaterStep(prov.log[j])
             /\ prov.pc = "done" => prov.res = "IOError" /\ ~prov.container
        ELSE /\ prov.failed_step # "system"
             /\ prov.pc = "done" /\ prov.failed_step = "none" =>
                    /\ prov.res = "Ok" /\ prov.container
                    /\ InLog(<<"removed", "instance">>)
                    /\ has_includes(prov.conf) => IncludesSynced

(* the script failed without the option and create has returned *)
C15_witness ==
    /\ IsPm /\ InLog(<<"systemfiles", "failed">>) /\ ~prov.conf.ignore_sync_error
    /\ prov.pc = "done" /\ prov.res = "IOError" /\ ~prov.container /\ prov.mounts = {}

(* the sync failed with the option and create has succeeded for a delta    *)
(* container with includes                                                 *)
C15_witness_ignored ==
    /\ IsPm /\ InLog(<<"sync_host", "system", "failed">>) /\ prov.conf.ignore_sync_error
    /\ prov.conf.is_delta_container /\ has_includes(prov.conf)
    /\ prov.pc = "done" /\ prov.res = "Ok"

IsPrefix(s, t) == Len(s) <= Len(t) /\ SubSeq(t, 1, Len(s)) = s

(* the steps made on layers, in the order they were made *)
IsLayerStep(entry) ==
    entry[1] \in {"mount", "rsync", "umount"} /\ entry[2] # "instance"
LayerLog(log) == SelectSeq(log, IsLayerStep)

(* mount, rsync, umount of each layer of ls in turn *)
LayerSteps(ls) ==
    [k \in 1..(3 * Len(ls)) |->
        << <<"mount", "rsync", "umount">>[((k - 1) % 3) + 1], ls[((k - 1) \div 3) + 1] >>]

IsLayersSync(entry) == entry[1] = "sync_host" /\ entry[2] = "layers"

(* C16 (delta container): the instance is made from the base container;    *)
(* the layers are applied in declared order with the main image last, each *)
(* mounted, rsynced and unmounted before the next is mounted; the host     *)
(* sync of the accumulated removed list runs once, after all layers; no    *)
(* include is synced before that.                                          *)
C16_layers_in_order ==
    IsPm /\ prov.conf.is_delta_container =>
        LET declared == prov.conf.layers \o <<"app">>
            log == prov.log
        IN  /\ prov.lower = "base"
            /\ IsPrefix(LayerLog(log), LayerSteps(declared))
            /\ Cardinality(prov.mounts \ {"instance"}) <= 1
            /\ \A j \in 1..Len(log) : IsLayersSync(log[j]) =>
                   /\ log[j][3] = declared
                   /\ LayerLog(SubSeq(log, 1, j - 1)) = LayerSteps(declared)
                   /\ \A k \in 1..Len(log) : IsLayersSync(log[k]) => k = j
            /\ \A j \in 1..Len(log) : log[j][1] \in {"tar", "path"} =>
                   \E i \in 1..(j - 1) : IsLayersSync(log[i])
            /\ prov.pc = "done" /\ prov.res = "Ok" =>
                   \E j \in 1..Len(log) : IsLayersSync(log[j])

(* a delta container with two layers and a tar include has been created *)
C16_witness ==
    /\ IsPm /\ prov.conf.is_delta_container /\ prov.conf.layers = <<"l1", "l2">>
    /\ prov.conf.tars # <<>> /\ prov.pc = "done" /\ prov.res = "Ok"
    /\ InLog(<<"sync_host", "layers", <<"l1", "l2", "app">>>>)

(***************************************************************************)
(* Exit status of one invocation: the result of the guest run and of sub   *)
(* commands, and the exit code the pilot reports for it.                   *)
(***************************************************************************)
ExitCodes == 0..255
NoCode == -1           \* status.code() is None: the child was ended by a signal
SUCCESS == 0
FAILURE == 1

(* a child process: not spawned, or ended with an exit code or by a signal *)
ChildOutcomes == [spawned : BOOLEAN, code : ExitCodes \cup {NoCode}]

Ok == [kind |-> "Ok", base |-> "", code |-> NoCode]
Err(kind, base, code) == [kind |-> kind, base |-> base, code |-> code]
InternalErrors == {"IO", "MalformedJson", "AlreadyRunning", "OperationError"}

(* where the result of the invocation comes from *)
Hows == {"perform", "pm_status", "pm_output", "fc_blocking", "fc_vsock"} \cup InternalErrors

(* handle_output: Ok for a successful child, else a CommandError carrying  *)
(* the spawn error or the output with its status                           *)
handle_output(child) ==
    IF ~child.spawned THEN Err("CommandError", "IO", NoCode)
    ELSE IF child.code = 0 THEN Ok
    ELSE Err("CommandError", "ExecutionError", child.code)

(* report with the code of the child dropped *)
report_generic(error) == FAILURE

(* FlakeError::report: (code as u8) for an ExecutionError with a code *)
report(error) ==
    IF error.kind = "CommandError" /\ error.base = "ExecutionError"
    THEN IF error.code # NoCode THEN error.code % 256 ELSE FAILURE
    ELSE FAILURE

(* the engine has run the guest command: podman ends with the status of    *)
(* the guest command; sci drops it before the reboot, the monitor's status *)
(* is its own; the vsock bridge carries no status                          *)
InitExit ==
    /\ MainIdle
    /\ idn = Off /\ prov = Off /\ vs = Off /\ MoreOff
    /\ \E how \in Hows, child \in ChildOutcomes, guest \in ExitCodes :
          /\ how \in {"pm_status", "pm_output"} /\ child.spawned => child.code = guest
          /\ how \notin {"pm_status", "pm_output", "fc_blocking", "fc_vsock"} => guest = 0
          /\ how \in InternalErrors \cup {"fc_vsock"} => child = [spawned |-> TRUE, code |-> 0]
          /\ ~child.spawned => child.code = NoCode
          /\ ex = [pc |-> "call", how |-> how, child |-> child, guest |-> guest,
                   ran |-> FALSE, res |-> Ok, code |-> NoCode]

Returns(res, ran) ==
    /\ ex' = [ex EXCEPT !.pc = "returned", !.res = res, !.ran = ran]
    /\ UNCHANGED <<Main, idn, prov, vs, More>>

(* a sub command run with perform()?, its error returned to main *)
perform ==
    /\ ex.pc = "call" /\ ex.how = "perform"
    /\ Returns(handle_output(ex.child), FALSE)

(* an error that is not a CommandError returned to main *)
raise ==
    /\ ex.pc = "call" /\ ex.how \in InternalErrors
    /\ Returns(Err(ex.how, "", NoCode), FALSE)

(* podman call_instance on a terminal: call.status()?; Ok(()) *)
call_instance_status ==
    /\ ex.pc = "call" /\ ex.how = "pm_status"
    /\ IF ex.child.spawned THEN Returns(Ok, TRUE)
       ELSE Returns(Err("IO", "", NoCode), FALSE)

(* podman call_instance without a terminal: call.output(); on Err a second *)
(* call.output()? after podman_setup_permissions; Ok(())                   *)
call_instance_output ==
    /\ ex.pc = "call" /\ ex.how = "pm_output"
    /\ IF ex.child.spawned THEN Returns(Ok, TRUE)
       ELSE \/ Returns(Ok, TRUE)
            \/ Returns(Err("IO", "", NoCode), FALSE)

(* firecracker call_instance, blocking: spawn()?, then                     *)
(* handle_output(child.wait_with_output())?                                *)
call_instance_blocking ==
    /\ ex.pc = "call" /\ ex.how = "fc_blocking"
    /\ IF ex.child.spawned THEN Returns(handle_output(ex.child), TRUE)
       ELSE Returns(Err("IO", "", NoCode), FALSE)

(* execute_command_at_instance after the handshake: the command is sent,   *)
(* the listener thread joined, Ok(())                                      *)
execute_command_result ==
    /\ ex.pc = "call" /\ ex.how = "fc_vsock"
    /\ Returns(Ok, TRUE)

(* Termination: an error that main returns ends the process with its     *)
(* report()                                                                *)
report_error ==
    /\ ex.pc = "returned" /\ ex.res.kind # "Ok"
    /\ ex' = [ex EXCEPT !.pc = "exited", !.code = report(ex.res)]
    /\ UNCHANGED <<Main, idn, prov, vs, More>>

(* main returns Ok(()): the process ends with success *)
main_ok ==
    /\ ex.pc = "returned" /\ ex.res.kind = "Ok"
    /\ ex' = [ex EXCEPT !.pc = "exited", !.code = SUCCESS]
    /\ UNCHANGED <<Main, idn, prov, vs, More>>

NextExit ==
    \/ perform
    \/ raise
    \/ call_instance_status
    \/ call_instance_output
    \/ call_instance_blocking
    \/ execute_command_result
    \/ report_error
    \/ main_ok

SpecExit == InitExit /\ [][NextExit]_vars

(* C17: when the guest command was run and ended with a non-zero status,   *)
(* start does not return Ok(()) and the invocation does not end with       *)
(* success.                                                                *)
C17_guest_status_returned ==
    ex.ran /\ ex.guest # 0 =>
        /\ ex.pc = "returned" => ex.res.kind # "Ok"
        /\ ex.pc = "exited" => ex.code # SUCCESS

(* C18: an error of a sub command whose child ended with exit code c gives *)
(* the pilot exit code c mod 256; a spawn failure, a child without an exit *)
(* code and every other error give the generic failure code.               *)
C18_exit_code_mapping ==
    ex.pc = "exited" /\ ex.res.kind # "Ok" =>
        IF      /\ ex.res.kind = "CommandError" /\ ex.how \in {"perform", "fc_blocking"}
                /\ ex.child.spawned /\ ex.child.code # NoCode
        THEN ex.code = ex.child.code % 256 /\ ex.code = ex.child.code
        ELSE ex.code = FAILURE

(* a sub command's child ended with code 137 and the pilot with 137 *)
C18_witness ==
    /\ ex.pc = "exited" /\ ex.how = "perform" /\ ex.child = [spawned |-> TRUE, code |-> 137]
    /\ ex.res = Err("CommandError", "ExecutionError", 137) /\ ex.code = 137

(***************************************************************************)
(* The host side of the vsock bridge for one invocation: the main thread   *)
(* of execute_command_at_instance, the listener thread it spawns, and the  *)
(* guest's connect-back.                                                   *)
(***************************************************************************)
RETRIES == 60

(* the VM was started with a vsock device; the main thread enters          *)
(* execute_command_at_instance                                             *)
InitVsock ==
    /\ MainIdle
    /\ idn = Off /\ prov = Off /\ ex = Off /\ MoreOff
    /\ vs = [pc |-> "wait", retry_count |-> 0, res |-> "", gave_up |-> "none",
             listener |-> "none", sent |-> FALSE, guest |-> "idle", pumped |-> "none"]

VsStep(r) == /\ vs' = r
             /\ UNCHANGED <<Main, idn, prov, ex, More>>
Retry(r) == [r EXCEPT !.retry_count = @ + 1]
Fail(r, err) == [r EXCEPT !.pc = "done", !.res = err]

(* wait for the UDS socket to appear *)
wait_socket ==
    /\ vs.pc = "wait"
    /\ IF vs.retry_count = RETRIES
       THEN VsStep(Fail([vs EXCEPT !.gave_up = "wait"], "MaxTriesExceeded"))
       ELSE \/ VsStep([vs EXCEPT !.pc = "chmod", !.retry_count = 0])
            \/ VsStep(Retry(vs))

(* check_connected: chmod(&vsock_uds_path, "777", User::ROOT)? *)
check_connected_chmod ==
    /\ vs.pc = "chmod"
    /\ \/ VsStep([vs EXCEPT !.pc = "check"])
       \/ VsStep(Fail(vs, "CommandError"))

(* check_connected: connect, CONNECT, OK; else sleep and retry *)
check_connected ==
    /\ vs.pc = "check"
    /\ IF vs.retry_count = RETRIES
       THEN VsStep(Fail([vs EXCEPT !.gave_up = "check"], "MaxTriesExceeded"))
       ELSE \/ VsStep([vs EXCEPT !.pc = "listen", !.retry_count = 0])
            \/ VsStep(Fail(vs, "IO"))
            \/ VsStep(Retry(vs))

(* get_exec_port; stream_listener: thread::spawn of the listener *)
stream_listener ==
    /\ vs.pc = "listen"
    /\ VsStep([vs EXCEPT !.pc = "send", !.listener = "spawned"])

(* listener thread: UnixListener::bind(<sock>_<port>) *)
listener_bind ==
    /\ vs.listener = "spawned"
    /\ \/ VsStep([vs EXCEPT !.listener = "bound"])
       \/ VsStep([vs EXCEPT !.listener = "ended"])

(* send_command_to_instance: connect, CONNECT, OK, "<command> <port>\n";   *)
(* else sleep and retry; after RETRIES attempts return 1.  The caller      *)
(* drops the return value.                                                 *)
send_command_to_instance ==
    /\ vs.pc = "send"
    /\ IF vs.retry_count = RETRIES
       THEN VsStep([vs EXCEPT !.pc = "join", !.gave_up = "send"])
       ELSE \/ VsStep([vs EXCEPT !.pc = "join", !.sent = TRUE, !.guest = "called"])
            \/ VsStep(Retry(vs))

(* sci: VsockStream::connect_with_cid_port(2, exec_port), once; the        *)
(* listener's incoming().next() accepts it                                 *)
guest_connect_back ==
    /\ vs.guest = "called"
    /\ IF vs.listener = "bound"
       THEN VsStep([vs EXCEPT !.guest = "connected", !.listener = "stream_io",
                              !.pumped = "accepted"])
       ELSE VsStep([vs EXCEPT !.guest = "connect failed"])

(* stream_io until EOF; the listener thread ends *)
stream_io ==
    /\ vs.listener = "stream_io"
    /\ VsStep([vs EXCEPT !.listener = "ended", !.guest = "done"])

(* let _ = thread_handle.join(); Ok(()) *)
join ==
    /\ vs.pc = "join" /\ vs.listener = "ended"
    /\ VsStep([vs EXCEPT !.pc = "done", !.res = "Ok"])

NextVsock ==
    \/ wait_socket
    \/ check_connected_chmod
    \/ check_connected
    \/ stream_listener
    \/ listener_bind
    \/ send_command_to_instance
    \/ guest_connect_back
    \/ stream_io
    \/ join

SpecVsock == InitVsock /\ [][NextVsock]_vars

(* C19: a handshake loop gives up only after RETRIES attempts, and when it *)
(* gives up execute_command_at_instance returns MaxTriesExceeded.          *)
C19_give_up_surfaces_MaxTriesExceeded ==
    vs.gave_up # "none" =>
        /\ vs.retry_count = RETRIES
        /\ vs.pc = "done" /\ vs.res = "MaxTriesExceeded"

(* C20: the listener is bound before the command line is sent, the guest's *)
(* connect-back finds it, and the stream pumped is the accepted one.       *)
C20_listener_bound_before_send ==
    /\ vs.sent => vs.listener \in {"bound", "stream_io"} \/ vs.pumped = "accepted"
    /\ vs.guest # "connect failed"
    /\ vs.listener = "stream_io" => vs.pumped = "accepted"

(***************************************************************************)
(* The container pilot when the program is registered with the image's     *)
(* entry point as target (target_app_path "/") or with a command.          *)
(***************************************************************************)
InitTarget ==
    /\ \E c \in Configs(CtProg), t \in {"/", target_app_path} :
          cfg = [pr \in Progs |-> IF pr = CtProg THEN [c EXCEPT !.target = t] ELSE NoConfig]
    /\ idfile = [i \in Idents |-> NoFile]
    /\ stale \in {0, GC_THRESHOLD}
    /\ sock = [i \in Idents |-> FALSE]
    /\ ovl = [i \in Idents |-> "none"]
    /\ vms = <<>> /\ vmLive = {} /\ cts = <<>> /\ ctExists = {} /\ ctRunning = {}
    /\ proc = [p \in Procs |-> Idle]
    /\ dist = [p \in Procs |-> FALSE]
    /\ idn = Off /\ prov = Off /\ ex = Off /\ vs = Off /\ MoreOff

SpecTarget == InitTarget /\ [][NextSeq]_vars

(* C30: with resume set and target_app_path "/" every invocation of the    *)
(* container pilot that returns returns UnknownCommand; none issues an     *)
(* engine create, start or exec, and no ID file and no container of the    *)
(* program ever exists.                                                    *)
C30_resume_with_entry_point_is_invalid ==
    cfg[CtProg].resume /\ cfg[CtProg].target = "/" =>
        /\ \A p \in Procs : IsCt(p) /\ proc[p].pc # "idle" =>
              /\ proc[p].pc = "done" => proc[p].res = "UnknownCommand"
              /\ \A k \in 1..Len(proc[p].ops) :
                    proc[p].ops[k][1] \notin {"create", "start", "exec", "attach"}
        /\ \A i \in Idents : i[1] = CtProg => idfile[i] = NoFile
        /\ cts = <<>>

(* an invocation with that configuration has returned UnknownCommand *)
C30_witness ==
    /\ cfg[CtProg].resume /\ cfg[CtProg].target = "/"
    /\ \E p \in Procs : IsCt(p) /\ proc[p].pc = "done" /\ proc[p].res = "UnknownCommand"
                        /\ proc[p].args # <<>>

(***************************************************************************)
(* The guest init (sci) of one VM from boot on, with the kernel command    *)
(* line the host has written for it.                                       *)
(***************************************************************************)
MaxRequests == 2       \* connections the guest accepts on its vsock port

(* create_firecracker_config: run=vsock with resume or force_vsock, else   *)
(* run="<command>"                                                         *)
run_mode(c) == IF c.resume \/ c.force_vsock THEN "vsock" ELSE "command"

(* The VM as it is started: the flake's settings, whether its boot_args    *)
(* hold a sci_resume entry, whether run= can be split into words, whether  *)
(* the command is systemd.                                                 *)
InitSci ==
    /\ MainIdle
    /\ idn = Off /\ prov = Off /\ ex = Off /\ vs = Off /\ pump = Off /\ fnv = Off
    /\ \E c \in [resume : BOOLEAN, force_vsock : BOOLEAN, overlay_size : BOOLEAN,
                 sci_resume : BOOLEAN, systemd : BOOLEAN, split_ok : BOOLEAN] :
          /\ run_mode(c) = "vsock" => c.split_ok /\ ~c.systemd
          /\ sci = [pc |-> "boot", conf |-> c, run |-> run_mode(c), ok |-> TRUE,
                    failed |-> "none", root |-> "image", executed |-> <<>>,
                    accepted |-> 0, running |-> FALSE, finished |-> 0]

SciStep(r) == /\ sci' = r
              /\ UNCHANGED <<Main, idn, prov, ex, vs, pump, fnv>>

(* do_reboot: force_reboot, or a panic of init when that fails *)
do_reboot(r) == [r EXCEPT !.pc = "down"]

(* main: env::var("run"), shell_words::split; mount_basic_fs *)
sci_parse_run ==
    /\ sci.pc = "boot"
    /\ IF sci.conf.split_ok
       THEN SciStep([sci EXCEPT !.pc = IF sci.conf.overlay_size THEN "overlay" ELSE "check"])
       ELSE SciStep(do_reboot(sci))

(* the overlay setup with the step that fails, if one does: ok is cleared  *)
(* by every failure that the code sees; pivot.status() is Ok(_) also when  *)
(* pivot_root ran and failed                                               *)
OverlaySteps(r) ==
    {"mount device", "create dirs", "mount overlay", "chdir"}
        \cup (IF r.conf.systemd THEN {} ELSE {"pivot_root spawn", "pivot_root exit"})

sci_overlay ==
    /\ sci.pc = "overlay"
    /\ \/ SciStep([sci EXCEPT !.pc = "check", !.root = "overlay"])
       \/ \E step \in OverlaySteps(sci) :
             SciStep([sci EXCEPT !.pc = "check", !.failed = step, !.root = "inconsistent",
                                 !.ok = (step = "pivot_root exit")])

(* if ! ok { do_reboot(ok) } *)
sci_check ==
    /\ sci.pc = "check"
    /\ IF sci.ok THEN SciStep([sci EXCEPT !.pc = "mode"])
       ELSE SciStep(do_reboot(sci))

(* match env::var("sci_resume"): Some: modprobe the vhost transport, bind  *)
(* the vsock listener; a failed bind clears ok and ends in do_reboot       *)
sci_bind ==
    /\ sci.pc = "mode" /\ sci.conf.sci_resume
    /\ \/ SciStep([sci EXCEPT !.pc = "serving"])
       \/ SciStep(do_reboot([sci EXCEPT !.ok = FALSE, !.failed = "bind"]))

(* None: the command of run= is called (or exec'ed), then do_reboot(ok) *)
sci_run ==
    /\ sci.pc = "mode" /\ ~sci.conf.sci_resume
    /\ SciStep(do_reboot([sci EXCEPT !.executed = Append(@, <<"run", sci.run>>)]))

(* listener.accept(): an empty payload is a probe; else a thread connects  *)
(* back and runs the command                                               *)
sci_accept ==
    /\ sci.pc = "serving" /\ sci.accepted < MaxRequests /\ ~sci.running
    /\ \/ SciStep([sci EXCEPT !.accepted = @ + 1])
       \/ SciStep([sci EXCEPT !.accepted = @ + 1, !.running = TRUE,
                              !.executed = Append(@, <<"request", sci.accepted + 1>>)])

(* redirect_command ends: the command's channels and the stream are at     *)
(* EOF, the host's pump exits; the thread ends                             *)
sci_command_done ==
    /\ sci.pc = "serving" /\ sci.running
    /\ SciStep([sci EXCEPT !.running = FALSE, !.finished = @ + 1])

NextSci ==
    \/ sci_parse_run
    \/ sci_overlay
    \/ sci_check
    \/ sci_bind
    \/ sci_run
    \/ sci_accept
    \/ sci_command_done

SpecSci == InitSci /\ [][NextSci]_vars

(* C21: a guest booted with run=vsock does not execute a command taken     *)
(* from run= and does not reboot; once past the mode switch it serves the  *)
(* vsock loop.                                                             *)
C21_run_vsock_serves ==
    sci.run = "vsock" =>
        /\ sci.pc # "down"
        /\ \A k \in 1..Len(sci.executed) : sci.executed[k][1] # "run"

(* C22: after a vsock command has finished, the VM runs on if resume is    *)
(* set and is down otherwise.                                              *)
C22_vm_after_vsock_command ==
    sci.run = "vsock" /\ sci.finished > 0 /\ ~sci.running =>
        IF sci.conf.resume THEN sci.pc = "serving" ELSE sci.pc = "down"

(* C24: after a failed step of the overlay setup the guest executes no     *)
(* command and does not serve vsock requests.                              *)
C24_overlay_failure_reboots ==
    sci.failed \in OverlaySteps(sci) =>
        /\ sci.executed = <<>>
        /\ sci.pc \in {"check", "down"}

(***************************************************************************)
(* Single functions of the pilots and of the guest init, each applied to   *)
(* one input: fnv.f names the function, fnv.pc is "in" before and "out"    *)
(* after the call.                                                         *)
(***************************************************************************)
MaxBootArgs == 2       \* entries of boot_args in a flake configuration

FnStep(r) == /\ fnv' = r
             /\ UNCHANGED <<Main, idn, prov, ex, vs, sci, pump>>

(* ---- Lookup::get_run_cmdline on characters ---- *)

(* command line tokens: @NAME, %option, plain, with '-', empty *)
CmdTokens == {<<"@", "t">>, <<"%", "o">>, <<"x">>, <<"-", "v">>, <<"a", "-", "b">>,
              <<"x", "@">>, <<"-", "%">>, <<>>}
CmdLines == UNION {[1..n -> CmdTokens] : n \in 0..MaxArgs}

(* arg.replace('-', "\\-") *)
RECURSIVE replace_dash(_)
replace_dash(arg) ==
    IF arg = <<>> THEN <<>>
    ELSE (IF Head(arg) = "-" THEN <<"\\", "-">> ELSE <<Head(arg)>>) \o replace_dash(Tail(arg))

(* the filter as it would be if it looked for '@' only *)
is_run_arg_at_only(arg) == ~starts_with(arg, "@")

(* ! arg.starts_with('@') && ! arg.starts_with('%') *)
is_run_arg(arg) == ~starts_with(arg, "@") /\ ~starts_with(arg, "%")

(* get_run_cmdline(init, quote_for_kernel_cmdline) with env::args()[1..] *)
run_cmdline(init, args, quote_for_kernel_cmdline) ==
    LET pass == SelectSeq(args, is_run_arg)
    IN  init \o [k \in 1..Len(pass) |->
                    IF quote_for_kernel_cmdline THEN replace_dash(pass[k]) ELSE pass[k]]

InputsCmdline ==
    [pc : {"in"}, f : {"get_run_cmdline"}, init : {<<>>, << <<"/", "a">> >>},
     args : CmdLines, quote : BOOLEAN, out : {<<>>}]

get_run_cmdline_call ==
    /\ fnv.pc = "in" /\ fnv.f = "get_run_cmdline"
    /\ FnStep([fnv EXCEPT !.pc = "out", !.out = run_cmdline(fnv.init, fnv.args, fnv.quote)])

(* ---- create_firecracker_config: the boot arguments ---- *)

(* an entry of the kernel command line is <<key, value>>, or <<word>> *)
BootOptions == {<<"console", "ttyS0">>, <<"quiet">>, <<"init", "/usr/sbin/sci">>}
BootArgLists == UNION {[1..n -> BootOptions] : n \in 0..MaxBootArgs}

(* the console entries are emptied in vsock mode whatever the debug mode *)
console_emptied_in_vsock(c) == c.resume \/ c.force_vsock

(* (resume || force_vsock) && ! Lookup::is_debug() *)
console_emptied(c) == (c.resume \/ c.force_vsock) /\ ~c.debug

(* the boot_args string, entry by entry: the template's, PILOT_DEBUG=1,    *)
(* overlay_root=/dev/vdb, the configured entries, run=                     *)
boot_args(c) ==
    c.template
    \o (IF c.debug THEN << <<"PILOT_DEBUG", "1">> >> ELSE <<>>)
    \o (IF c.overlay_size THEN << <<"overlay_root", "/dev/vdb">> >> ELSE <<>>)
    \o [k \in 1..Len(c.boot_args) |->
           IF console_emptied(c) /\ c.boot_args[k][1] = "console"
           THEN <<"console", "">> ELSE c.boot_args[k]]
    \o << <<"run", IF run_mode(c) = "vsock" THEN << <<"v", "s", "o", "c", "k">> >>
                   ELSE run_cmdline(<< <<"/", "a">> >>, c.args, TRUE)>> >>

InputsBootArgs ==
    [pc : {"in"}, f : {"boot_args"}, resume : BOOLEAN, force_vsock : BOOLEAN,
     overlay_size : BOOLEAN, debug : BOOLEAN, boot_args : BootArgLists,
     template : {<<>>, << <<"ro">> >>},
     args : {<<>>, << <<"-", "v">>, <<"@", "t">> >>}, out : {<<>>}]

create_firecracker_config ==
    /\ fnv.pc = "in" /\ fnv.f = "boot_args"
    /\ FnStep([fnv EXCEPT !.pc = "out", !.out = boot_args(fnv)])

(* ---- sci: one request read from the vsock listener ---- *)

MaxPayload == 4        \* characters of a request payload
PayloadChars == {"l", " ", "7", "\n"}
Payloads == UNION {[1..n -> PayloadChars] : n \in 0..MaxPayload}
Whitespace == {" ", "\n"}

(* str::trim_end *)
RECURSIVE trim_end(_)
trim_end(str) ==
    IF str # <<>> /\ str[Len(str)] \in Whitespace
    THEN trim_end(SubSeq(str, 1, Len(str) - 1)) ELSE str

(* str::split(' '): the pieces between the spaces, empty pieces kept *)
RECURSIVE split_space(_, _)
split_space(str, piece) ==
    IF str = <<>> THEN <<piece>>
    ELSE IF Head(str) = " " THEN <<piece>> \o split_space(Tail(str), <<>>)
    ELSE split_space(Tail(str), Append(piece, Head(str)))

(* [&str]::join(" ") *)
RECURSIVE join_space(_)
join_space(pieces) ==
    IF pieces = <<>> THEN <<>>
    ELSE IF Len(pieces) = 1 THEN pieces[1]
    ELSE pieces[1] \o <<" ">> \o join_space(Tail(pieces))

(* str::parse::<u32>: -1 stands for Err; a token of at most MaxPayload + 1 *)
(* digits is below 2^32, so the overflow error cannot occur here           *)
RECURSIVE digits_value(_, _)
digits_value(tok, acc) ==
    IF tok = <<>> THEN acc
    ELSE IF Head(tok) # "7" THEN -1
    ELSE digits_value(Tail(tok), acc * 10 + 7)
parse_u32(tok) == IF tok = <<>> THEN -1 ELSE digits_value(tok, 0)

(* the body of the accept loop for one payload *)
sci_request(payload) ==
    LET call_str   == trim_end(payload)
        call_stack == split_space(call_str, <<>>)
        exec_port  == call_stack[Len(call_stack)]
        exec_cmd   == join_space(SubSeq(call_stack, 1, Len(call_stack) - 1))
        parsed     == parse_u32(exec_port)
    IN  IF call_str = <<>>
        THEN [probe |-> TRUE, exec_cmd |-> <<>>, parsed |-> FALSE,
              exec_port_num |-> 0, connect |-> FALSE]
        ELSE [probe |-> FALSE, exec_cmd |-> exec_cmd, parsed |-> parsed # -1,
              exec_port_num |-> IF parsed = -1 THEN 0 ELSE parsed, connect |-> TRUE]

InputsRequest == [pc : {"in"}, f : {"sci_request"}, payload : Payloads, out : {<<>>}]

sci_request_call ==
    /\ fnv.pc = "in" /\ fnv.f = "sci_request"
    /\ FnStep([fnv EXCEPT !.pc = "out", !.out = sci_request(fnv.payload)])

(* ---- load_config: master file and fragments ---- *)

MaxEntries == 2        \* top-level entries of one configuration file
MaxFragments == 2      \* files below program_name.d

(* a top-level entry of a file is <<key, object>>; an object maps the      *)
(* fields that are written in the file to their values                     *)
TopKeys == {"container", "include"}
TopEntries == {<<"container", [name |-> "JoJo", base_container |-> "base"]>>,
               <<"container", [name |-> "Dio"]>>,
               <<"include", [tar |-> "t1"]>>,
               <<"include", [path |-> "p1"]>>}
YamlFiles == UNION {[1..n -> TopEntries] : n \in 0..MaxEntries}
Absent == [absent |-> TRUE]

(* the paths below program_name.d are NN.yaml, given by NN: their          *)
(* lexicographic order is the order of the numbers                         *)
FragmentPaths == 1..MaxFragments
ReadDirs ==
    {d \in UNION {[1..n -> [path : FragmentPaths, text : YamlFiles]] : n \in 0..MaxFragments} :
        \A i, j \in 1..Len(d) : i # j => d[i].path # d[j].path}

(* a later occurrence of a key that inherits the fields of the earlier one *)
hash_insert_inherit(h, key, obj) ==
    [h EXCEPT ![key] =
        IF h[key] = Absent THEN obj
        ELSE [f \in DOMAIN h[key] \cup DOMAIN obj |->
                 IF f \in DOMAIN obj THEN obj[f] ELSE h[key][f]]]

(* yaml_rust: a duplicate key replaces the value read before *)
hash_insert(h, key, obj) == [h EXCEPT ![key] = obj]

(* YamlLoader::load_from_str on the top level of the first document *)
RECURSIVE load_from_str(_, _)
load_from_str(text, h) ==
    IF text = <<>> THEN h
    ELSE load_from_str(Tail(text), hash_insert(h, Head(text)[1], Head(text)[2]))

(* serde_yaml::from_str(content).unwrap(): container and include are       *)
(* fields of Config without a default                                      *)
config_from_str(text) ==
    LET h == load_from_str(text, [k \in TopKeys |-> Absent])
    IN  IF \E k \in TopKeys : h[k] = Absent THEN [panic |-> TRUE] ELSE h

(* extra_yamls.sort() *)
sort_paths(dir) == SortSeq(dir, LAMBDA a, b : a.path < b.path)

RECURSIVE chain(_)
chain(files) == IF files = <<>> THEN <<>> ELSE Head(files).text \o chain(Tail(files))

(* full_yaml: base_yaml chained with the sorted extra_yamls *)
full_yaml(master, dir) == master \o chain(sort_paths(dir))

InputsConfig == [pc : {"in"}, f : {"load_config"}, master : YamlFiles, dir : ReadDirs,
                 out : {<<>>}]

load_config ==
    /\ fnv.pc = "in" /\ fnv.f = "load_config"
    /\ FnStep([fnv EXCEPT !.pc = "out",
                          !.out = config_from_str(full_yaml(fnv.master, fnv.dir))])

(* ---- load_config: system wide or user specific registration ---- *)

FragmentSets == SUBSET FragmentPaths

(* the lookup as it would be without the user specific fallback *)
usermode_system_only(sys, usr) == IF sys THEN "system" ELSE "panic"

(* usermode = false; if ! exists { usermode = true; if ! exists { panic } } *)
usermode_of(sys, usr) == IF sys THEN "system" ELSE IF usr THEN "user" ELSE "panic"

(* what is registered for the program: the master file and program_name.d  *)
(* below the system wide flakes dir and below the user's, which exists     *)
(* only if a flakes_dir is configured for the user                         *)
InputsRoot ==
    {r \in [pc : {"in"}, f : {"config_root"}, system_file : BOOLEAN, user_file : BOOLEAN,
            user_flakes_dir : BOOLEAN, system_d : FragmentSets, user_d : FragmentSets,
            out : {<<>>}] :
        ~r.user_flakes_dir => (~r.user_file /\ r.user_d = {})}

(* load_config up to the paths it reads, then the first engine command of  *)
(* create; get_flakes_dir(true) exits if no flakes_dir is configured       *)
config_root(r) ==
    LET usermode == usermode_of(r.system_file, r.user_file)
    IN  IF usermode = "panic" \/ (usermode = "user" /\ ~r.user_flakes_dir)
        THEN [fatal |-> TRUE, base_file |-> "none", config_dir |-> "none",
              extra_yamls |-> {}, commands |-> <<>>]
        ELSE [fatal |-> FALSE, base_file |-> usermode, config_dir |-> usermode,
              extra_yamls |-> IF usermode = "user" THEN r.user_d ELSE r.system_d,
              commands |-> <<"create">>]

config_root_call ==
    /\ fnv.pc = "in" /\ fnv.f = "config_root"
    /\ FnStep([fnv EXCEPT !.pc = "out", !.out = config_root(fnv)])

(* ---- the functions together ---- *)

InitFn ==
    /\ MainIdle
    /\ idn = Off /\ prov = Off /\ ex = Off /\ vs = Off /\ sci = Off /\ pump = Off
    /\ fnv \in InputsCmdline \cup InputsBootArgs \cup InputsRequest
               \cup InputsConfig \cup InputsRoot

NextFn ==
    \/ get_run_cmdline_call
    \/ create_firecracker_config
    \/ sci_request_call
    \/ load_config
    \/ config_root_call

SpecFn == InitFn /\ [][NextFn]_vars

FnOut(f) == fnv.pc = "out" /\ fnv.f = f

(* number of '-' among the first n characters of arg *)
Dashes(arg, n) == Cardinality({i \in 1..n : arg[i] = "-"})

(* esc is arg with a backslash put before each '-' and nothing else changed *)
Escaped(arg, esc) ==
    /\ Len(esc) = Len(arg) + Dashes(arg, Len(arg))
    /\ \A i \in 1..Len(arg) :
          /\ esc[i + Dashes(arg, i)] = arg[i]
          /\ arg[i] = "-" => esc[i + Dashes(arg, i) - 1] = "\\"

(* C26: every argument after argv[0] is of exactly one kind: an @ token,   *)
(* which is not forwarded, a % token, which is not forwarded, or any other *)
(* token, which is forwarded; the forwarded tokens keep their order and    *)
(* their text, except that the kernel command line form has a backslash    *)
(* before each '-'.                                                        *)
C26_arguments_partitioned ==
    FnOut("get_run_cmdline") =>
        LET args == fnv.args
            at   == {k \in 1..Len(args) : args[k] # <<>> /\ args[k][1] = "@"}
            pct  == {k \in 1..Len(args) : args[k] # <<>> /\ args[k][1] = "%"}
            fwd  == (1..Len(args)) \ (at \cup pct)
            nth(j) == CHOOSE k \in fwd : Cardinality({i \in fwd : i < k}) = j - 1
            out  == SubSeq(fnv.out, Len(fnv.init) + 1, Len(fnv.out))
        IN  /\ at \cap pct = {}
            /\ SubSeq(fnv.out, 1, Len(fnv.init)) = fnv.init
            /\ Len(out) = Cardinality(fwd)
            /\ \A j \in 1..Len(out) :
                  IF fnv.quote THEN Escaped(args[nth(j)], out[j])
                  ELSE out[j] = args[nth(j)]

C26_witness ==
    /\ FnOut("get_run_cmdline") /\ fnv.quote
    /\ fnv.args = << <<"%", "o">>, <<"a", "-", "b">> >>
    /\ fnv.out = fnv.init \o << <<"a", "\\", "-", "b">> >>

(* C25 as stated: one run= entry, run=vsock iff resume or force_vsock and  *)
(* the quoted command otherwise; overlay_root=/dev/vdb iff an overlay is   *)
(* configured; PILOT_DEBUG=1 iff debug; in vsock mode every console= entry *)
(* is emptied.                                                             *)
BootRunOverlayDebug ==
    LET out  == fnv.out
        runs == {k \in 1..Len(out) : out[k][1] = "run"}
    IN  /\ Cardinality(runs) = 1
        /\ \A k \in runs :
              out[k][2] = IF fnv.resume \/ fnv.force_vsock
                          THEN << <<"v", "s", "o", "c", "k">> >>
                          ELSE run_cmdline(<< <<"/", "a">> >>, fnv.args, TRUE)
        /\ fnv.overlay_size <=>
              \E k \in 1..Len(out) : out[k][1] = "overlay_root" /\ out[k][2] = "/dev/vdb"
        /\ fnv.debug <=>
              \E k \in 1..Len(out) : out[k][1] = "PILOT_DEBUG" /\ out[k][2] = "1"
        /\ Cardinality({k \in 1..Len(out) : out[k][1] = "console"})
              = Cardinality({k \in 1..Len(fnv.boot_args) : fnv.boot_args[k][1] = "console"})

C25_boot_args_as_stated ==
    FnOut("boot_args") =>
        /\ BootRunOverlayDebug
        /\ fnv.resume \/ fnv.force_vsock =>
              \A k \in 1..Len(fnv.out) : fnv.out[k][1] = "console" => fnv.out[k][2] = ""

(* C25: as above, but the console= entries are emptied in vsock mode only  *)
(* if debug is off; in every other case they are left as configured.       *)
C25_boot_args ==
    FnOut("boot_args") =>
        /\ BootRunOverlayDebug
        /\ \A k \in 1..Len(fnv.out) :
              fnv.out[k][1] = "console" =>
                  fnv.out[k][2] = IF (fnv.resume \/ fnv.force_vsock) /\ ~fnv.debug
                                  THEN "" ELSE "ttyS0"

C25_witness ==
    /\ FnOut("boot_args") /\ fnv.force_vsock /\ ~fnv.resume /\ ~fnv.debug /\ fnv.overlay_size
    /\ fnv.boot_args = << <<"console", "ttyS0">>, <<"quiet">> >>
    /\ fnv.out = fnv.template \o << <<"overlay_root", "/dev/vdb">>, <<"console", "">>,
                                    <<"quiet">>, <<"run", << <<"v", "s", "o", "c", "k">> >> >> >>

(* C23: a payload of whitespace only is a probe, for which no command is   *)
(* launched and no connection is opened; any other payload yields a        *)
(* non-empty command and a port.                                           *)
C23_request_parsing ==
    FnOut("sci_request") =>
        LET blank == \A i \in 1..Len(fnv.payload) : fnv.payload[i] \in Whitespace
        IN  /\ fnv.out.probe <=> blank
            /\ fnv.out.probe => ~fnv.out.connect /\ fnv.out.exec_cmd = <<>>
            /\ ~fnv.out.probe => fnv.out.exec_cmd # <<>> /\ fnv.out.parsed

(* the fragments in the order of their paths *)
LexOrder(dir) ==
    [i \in 1..Len(dir) |->
        CHOOSE e \in {dir[j] : j \in 1..Len(dir)} :
            Cardinality({j \in 1..Len(dir) : dir[j].path < e.path}) = i - 1]

(* C28: the configuration read from a master file and fragments has, for   *)
(* each top-level key, the object of the key's last occurrence in the      *)
(* master followed by the fragments in the order of their paths, and       *)
(* nothing of an earlier occurrence.                                       *)
C28_last_occurrence_wins ==
    FnOut("load_config") /\ fnv.out # [panic |-> TRUE] =>
        LET text == fnv.master \o chain(LexOrder(fnv.dir))
            occ(key) == {i \in 1..Len(text) : text[i][1] = key}
            last(key) == CHOOSE i \in occ(key) : \A j \in occ(key) : j <= i
        IN  \A key \in TopKeys : occ(key) # {} /\ fnv.out[key] = text[last(key)][2]

C28_witness ==
    /\ FnOut("load_config")
    /\ fnv.master = << <<"container", [name |-> "JoJo", base_container |-> "base"]>>,
                       <<"include", [tar |-> "t1"]>> >>
    /\ Len(fnv.dir) = 2 /\ fnv.dir[1].path = 2 /\ fnv.dir[2].path = 1
    /\ fnv.dir[1].text = << <<"container", [name |-> "Dio"]>> >>
    /\ fnv.dir[2].text = << <<"container", [name |-> "JoJo", base_container |-> "base"]>> >>
    /\ fnv.out = [container |-> [name |-> "Dio"], include |-> [tar |-> "t1"]]

(* C29: a registration that exists only system wide is used, one that      *)
(* exists only for the user is used, with neither the load is fatal and no *)
(* engine command is run; program_name.d is read below the flakes dir of   *)
(* the master file.                                                        *)
C29_config_root ==
    FnOut("config_root") =>
        /\ fnv.system_file /\ ~fnv.user_file =>
              ~fnv.out.fatal /\ fnv.out.base_file = "system"
        /\ ~fnv.system_file /\ fnv.user_file =>
              ~fnv.out.fatal /\ fnv.out.base_file = "user"
        /\ ~fnv.system_file /\ ~fnv.user_file =>
              fnv.out.fatal /\ fnv.out.commands = <<>>
        /\ ~fnv.out.fatal =>
              /\ fnv.out.config_dir = fnv.out.base_file
              /\ fnv.out.extra_yamls =
                    IF fnv.out.base_file = "user" THEN fnv.user_d ELSE fnv.system_d

C29_witness ==
    /\ FnOut("config_root") /\ ~fnv.system_file /\ fnv.user_file
    /\ fnv.system_d = {1} /\ fnv.user_d = {2}
    /\ fnv.out.base_file = "user" /\ fnv.out.extra_yamls = {2}

(***************************************************************************)
(* stream_io: the loop that copies stdin to the guest stream and the guest *)
(* stream to stdout.  What arrives at an end is a sequence of chunks       *)
(* (each at most the buffer's size), possibly ended by EOF or by a read    *)
(* error; select wakes up with some of the ends that have something.       *)
(***************************************************************************)
MaxChunks == 2         \* chunks arriving at one end

Chunks == {"c1", "c2"}
Arrivals == {c \o e : c \in UNION {[1..n -> Chunks] : n \in 0..MaxChunks},
                      e \in {<<>>, <<"EOF">>, <<"ERR">>}}

InitPump ==
    /\ MainIdle
    /\ idn = Off /\ prov = Off /\ ex = Off /\ vs = Off /\ sci = Off /\ fnv = Off
    /\ pump \in [pc : {"select"}, stdin : Arrivals, stream : Arrivals,
                 stdout_readable : BOOLEAN, i_stdin : {1}, i_stream : {1},
                 fdset : {{}}, to_stream : {<<>>}, to_stdout : {<<>>}, cause : {"none"}]

PumpStep(r) == /\ pump' = r
               /\ UNCHANGED <<Main, idn, prov, ex, vs, sci, fnv>>

(* a read that never reports the end of the input *)
is_eof_never(sz_r) == FALSE

(* if sz_r == 0 { break } *)
is_eof(sz_r) == sz_r = 0

(* Read::read into the buffer: the size read, -1 for Err *)
read_size(event) == IF event = "EOF" THEN 0 ELSE IF event = "ERR" THEN -1 ELSE 1

(* libc::select on stdout, stdin and the stream: returns with the ends     *)
(* that are readable; stdout is in the set too and can wake it up alone    *)
pump_select ==
    /\ pump.pc = "select"
    /\ LET pending == (IF pump.i_stdin <= Len(pump.stdin) THEN {"stdin"} ELSE {})
                      \cup (IF pump.i_stream <= Len(pump.stream) THEN {"stream"} ELSE {})
       IN  \E fdset \in SUBSET pending :
              /\ fdset # {} \/ pump.stdout_readable
              /\ PumpStep([pump EXCEPT !.pc = "stdin", !.fdset = fdset])

(* if FD_ISSET(stdin_fd): read, break on EOF or error, write_all to stream *)
pump_stdin ==
    /\ pump.pc = "stdin"
    /\ IF "stdin" \notin pump.fdset THEN PumpStep([pump EXCEPT !.pc = "stream"])
       ELSE LET event == pump.stdin[pump.i_stdin]
                sz_r  == read_size(event)
                read  == [pump EXCEPT !.i_stdin = @ + 1]
            IN  IF sz_r = -1
                THEN PumpStep([read EXCEPT !.pc = "done", !.cause = "read failure on stdin"])
                ELSE IF is_eof(sz_r)
                THEN PumpStep([read EXCEPT !.pc = "done", !.cause = "EOF on stdin"])
                ELSE \E written \in BOOLEAN :
                        IF written
                        THEN PumpStep([read EXCEPT !.pc = "stream",
                                                   !.to_stream = Append(@, event)])
                        ELSE PumpStep([read EXCEPT !.pc = "done",
                                                   !.cause = "write failure on stream"])

(* if FD_ISSET(stream_fd): read, break on EOF or error, write_all to stdout *)
pump_stream ==
    /\ pump.pc = "stream"
    /\ IF "stream" \notin pump.fdset THEN PumpStep([pump EXCEPT !.pc = "select"])
       ELSE LET event == pump.stream[pump.i_stream]
                sz_r  == read_size(event)
                read  == [pump EXCEPT !.i_stream = @ + 1]
            IN  IF sz_r = -1
                THEN PumpStep([read EXCEPT !.pc = "done", !.cause = "read failure on stream"])
                ELSE IF is_eof(sz_r)
                THEN PumpStep([read EXCEPT !.pc = "done", !.cause = "EOF on stream"])
                ELSE \E written \in BOOLEAN :
                        IF written
                        THEN PumpStep([read EXCEPT !.pc = "select",
                                                   !.to_stdout = Append(@, event)])
                        ELSE PumpStep([read EXCEPT !.pc = "done",
                                                   !.cause = "write failure on stdout"])

NextPump == pump_select \/ pump_stdin \/ pump_stream

SpecPump == InitPump /\ [][NextPump]_vars

(* what has been read from an end so far *)
ReadOf(arrivals, i) == SubSeq(arrivals, 1, i - 1)

(* C27: the loop has ended if and only if an EOF or a read error was read  *)
(* from stdin or the stream, or a write of the loop failed; while it runs, *)
(* what was written to the stream is what was read from stdin and what was *)
(* written to stdout is what was read from the stream, chunk by chunk in   *)
(* the order of arrival.                                                   *)
C27_pump_breaks_on_eof ==
    pump # Off =>
        LET read_stdin  == ReadOf(pump.stdin, pump.i_stdin)
            read_stream == ReadOf(pump.stream, pump.i_stream)
            ended(read) == read # <<>> /\ read[Len(read)] \in {"EOF", "ERR"}
        IN  /\ pump.pc = "done" <=>
                  \/ ended(read_stdin) \/ ended(read_stream)
                  \/ pump.cause \in {"write failure on stream", "write failure on stdout"}
            /\ pump.pc # "done" =>
                  /\ pump.cause = "none"
                  /\ pump.to_stream = read_stdin
                  /\ pump.to_stdout = read_stream
            /\ pump.pc = "done" =>
                  /\ \E n \in 0..Len(pump.stdin) : pump.to_stream = SubSeq(pump.stdin, 1, n)
                  /\ \E n \in 0..Len(pump.stream) : pump.to_stdout = SubSeq(pump.stream, 1, n)
                  /\ Len(read_stdin) - Len(pump.to_stream) <= 1
                  /\ Len(read_stream) - Len(pump.to_stdout) <= 1

C27_witness ==
    /\ pump # Off /\ pump.pc = "done" /\ pump.cause = "EOF on stream"
    /\ pump.stdin = <<"c1", "c2">> /\ pump.to_stream = <<"c1", "c2">>
    /\ pump.stream = <<"c2", "c1", "EOF">> /\ pump.to_stdout = <<"c2", "c1">>

(***************************************************************************)
(* The command sent to a running VM: the port the pilot listens on, and    *)
(* the command line as the host writes it and as the guest reads it.       *)
(***************************************************************************)
MaxOsPid == 3          \* process IDs the system hands out
FIRECRACKER_VSOCK_PORT_START == 49200

PortKey == <<"%", "p", "o", "r", "t">>
PortTokens == {PortKey \o <<":", "7">>, PortKey \o <<":", "7", "7">>,
               PortKey \o <<":", "l">>, PortKey,
               PortKey \o <<":", "7", ":", "7">>, <<"%", "o", ":", "7">>, <<"x">>}
PortLines == UNION {[1..n -> PortTokens] : n \in 0..MaxArgs}

(* str::rsplit_once(':').unwrap_or_default() *)
rsplit_once(arg) ==
    LET colons == {i \in 1..Len(arg) : arg[i] = ":"}
    IN  IF colons = {} THEN << <<>>, <<>> >>
        ELSE LET last == CHOOSE i \in colons : \A j \in colons : j <= i
             IN  <<SubSeq(arg, 1, last - 1), SubSeq(arg, last + 1, Len(arg))>>

(* the entry get_pilot_run_options inserts for a % argument *)
pilot_option(arg) ==
    IF rsplit_once(arg)[1] = <<>> THEN <<arg, <<>> >> ELSE rsplit_once(arg)

(* a default port that does not depend on the process *)
exec_port_default_fixed(pid) == FIRECRACKER_VSOCK_PORT_START

(* defaults::FIRECRACKER_VSOCK_PORT_START + id() *)
exec_port_default(pid) == FIRECRACKER_VSOCK_PORT_START + pid

(* get_exec_port: pilot_options["%port"] is the value inserted last *)
get_exec_port(args, pid) ==
    LET keyed == {k \in 1..Len(args) :
                    starts_with(args[k], "%") /\ pilot_option(args[k])[1] = PortKey}
    IN  IF keyed = {} THEN exec_port_default(pid)
        ELSE LET last == CHOOSE k \in keyed : \A j \in keyed : j <= k
                 num  == parse_u32(pilot_option(args[last])[2])
             IN  IF num = -1 THEN 0 ELSE num

(* two pilots that run at the same time have different process IDs *)
InputsPort ==
    {r \in [pc : {"in"}, f : {"get_exec_port"}, pid : [1..2 -> 1..MaxOsPid],
            args : [1..2 -> PortLines], out : {<<>>}] : r.pid[1] # r.pid[2]}

(* execute_command_at_instance: exec_port and command_socket, of each pilot *)
get_exec_port_call ==
    /\ fnv.pc = "in" /\ fnv.f = "get_exec_port"
    /\ FnStep([fnv EXCEPT !.pc = "out",
                  !.out = [p \in 1..2 |->
                              LET exec_port == get_exec_port(fnv.args[p], fnv.pid[p])
                              IN  [exec_port |-> exec_port,
                                   command_socket |-> <<"vsock_uds_path", "_", exec_port>>]]])

(* arguments of a pilot call; one is empty, one holds a space *)
BridgeTokens == {<<"x">>, <<>>, <<"a", " ", "b">>, <<"-", "v">>, <<"@", "t">>}
BridgeLines == UNION {[1..n -> BridgeTokens] : n \in 0..MaxArgs}

InputsBridge == [pc : {"in"}, f : {"bridge"}, args : BridgeLines,
                 exec_port : {<<"7">>, <<"7", "7">>}, out : {<<>>}]

(* send_command_to_instance: format!("{} {}\n", run.join(" "), exec_port) *)
bridge_payload(run, exec_port) == join_space(run) \o <<" ">> \o exec_port \o <<"\n">>

(* the host's run vector, and program and arguments as redirect_command    *)
(* takes them from exec_cmd by command.split(' ')                          *)
bridge ==
    /\ fnv.pc = "in" /\ fnv.f = "bridge"
    /\ LET run == run_cmdline(<< <<"/", "a">> >>, fnv.args, FALSE)
           request == sci_request(bridge_payload(run, fnv.exec_port))
       IN  FnStep([fnv EXCEPT !.pc = "out",
                      !.out = [run |-> run,
                               call_args |-> split_space(request.exec_cmd, <<>>),
                               exec_port_num |-> request.exec_port_num]])

InitArgs ==
    /\ MainIdle
    /\ idn = Off /\ prov = Off /\ ex = Off /\ vs = Off /\ sci = Off /\ pump = Off
    /\ fnv \in InputsPort \cup InputsBridge

NextArgs == get_exec_port_call \/ bridge

SpecArgs == InitArgs /\ [][NextArgs]_vars

(* C31: without a %port option the port is VSOCK_PORT_START plus the       *)
(* pilot's process ID, with %port:N it is N; two pilots running at the     *)
(* same time without %port have different per-command sockets.             *)
C31_exec_port ==
    FnOut("get_exec_port") =>
        LET IsPort(tok) ==
                \/ tok = PortKey
                \/ /\ Len(tok) > 5 /\ SubSeq(tok, 1, 6) = PortKey \o <<":">>
                   /\ \A i \in 7..Len(tok) : tok[i] # ":"
            keyed(p) == {k \in 1..Len(fnv.args[p]) : IsPort(fnv.args[p][k])}
            last(p) == fnv.args[p][CHOOSE k \in keyed(p) : \A j \in keyed(p) : j <= k]
        IN  /\ \A p \in 1..2 :
                  /\ keyed(p) = {} => fnv.out[p].exec_port = 49200 + fnv.pid[p]
                  /\ keyed(p) # {} /\ last(p) = PortKey \o <<":", "7">> =>
                        fnv.out[p].exec_port = 7
                  /\ keyed(p) # {} /\ last(p) = PortKey \o <<":", "7", "7">> =>
                        fnv.out[p].exec_port = 77
            /\ keyed(1) = {} /\ keyed(2) = {} =>
                  fnv.out[1].command_socket # fnv.out[2].command_socket

C31_witness ==
    /\ FnOut("get_exec_port")
    /\ fnv.pid = <<2, 3>> /\ fnv.args = << << <<"x">> >>, << <<"%", "o", ":", "7">> >> >>
    /\ fnv.out[1].exec_port = 49202 /\ fnv.out[2].exec_port = 49203

(* C38: the program and arguments the guest executes are the target path   *)
(* and the forwarded arguments of the host, also for arguments that are    *)
(* empty or hold a space.                                                  *)
C38_argument_round_trip ==
    FnOut("bridge") => fnv.out.call_args = fnv.out.run

(***************************************************************************)
(* create: the %VAR placeholders of one configured podman argument.  The   *)
(* loop runs as long as the pattern %([A-Z]+) matches; each pass replaces, *)
(* for every match found at its start, all occurrences of %NAME.           *)
(***************************************************************************)
Upper == {"A", "B"}
VarNames == {<<"A">>, <<"B">>, <<"A", "B">>}
Unset == <<"unset">>
SubstArgs == {<<"%", "A">>, <<"x", "%", "A">>, <<"%", "A", "%", "B">>, <<"%", "A", "B">>,
              <<"%", "A", "%", "A", "B">>, <<"%", "B">>, <<"x">>, <<"%", "x">>}
Environments ==
    {e \in [VarNames -> {Unset, <<"v">>, <<"w">>, <<"%", "A">>, <<"%", "B">>}] :
        /\ e[<<"A">>] # <<"w">>
        /\ e[<<"B">>] \in {Unset, <<"w">>, <<"%", "A">>}
        /\ e[<<"A", "B">>] \in {Unset, <<"v">>}}

(* length of the run of capital letters at the start of str *)
RECURSIVE upper_run(_)
upper_run(str) ==
    IF str # <<>> /\ Head(str) \in Upper THEN 1 + upper_run(Tail(str)) ELSE 0

(* Regex %([A-Z]+): captures_iter, the names of the matches from the left *)
RECURSIVE captures_iter(_)
captures_iter(str) ==
    IF str = <<>> THEN <<>>
    ELSE IF Head(str) = "%" /\ upper_run(Tail(str)) > 0
    THEN LET n == upper_run(Tail(str))
         IN  <<SubSeq(str, 2, 1 + n)>> \o captures_iter(SubSeq(str, 2 + n, Len(str)))
    ELSE captures_iter(Tail(str))

(* str::replace(from, to): every occurrence from the left *)
RECURSIVE str_replace(_, _, _)
str_replace(str, from, to) ==
    IF Len(str) < Len(from) THEN str
    ELSE IF SubSeq(str, 1, Len(from)) = from
    THEN to \o str_replace(SubSeq(str, Len(from) + 1, Len(str)), from, to)
    ELSE <<Head(str)>> \o str_replace(Tail(str), from, to)

(* env::var(var_name).unwrap_or(format!("${}", var_name)) *)
var_value(env, var_name) ==
    IF env[var_name] = Unset THEN <<"$">> \o var_name ELSE env[var_name]

(* the for loop over the captures of one pass *)
RECURSIVE replace_captures(_, _, _)
replace_captures(arg_value, caps, env) ==
    IF caps = <<>> THEN arg_value
    ELSE replace_captures(str_replace(arg_value, <<"%">> \o Head(caps),
                                      var_value(env, Head(caps))),
                          Tail(caps), env)

InitSubst ==
    /\ MainIdle
    /\ idn = Off /\ prov = Off /\ ex = Off /\ vs = Off /\ sci = Off /\ pump = Off
    /\ fnv \in [pc : {"while"}, f : {"substitute"}, arg : SubstArgs, env : Environments,
                arg_value : {<<>>}, passes : {0}]
    /\ fnv.arg_value = <<>>

(* let mut arg_value = arg.to_string() *)
substitute_begin ==
    /\ fnv.pc = "while" /\ fnv.passes = 0 /\ fnv.arg_value = <<>>
    /\ FnStep([fnv EXCEPT !.arg_value = fnv.arg, !.passes = 1])

(* while var_pattern.captures(&arg_value).is_some() { for capture ... } *)
substitute_pass ==
    /\ fnv.pc = "while" /\ fnv.passes = 1
    /\ captures_iter(fnv.arg_value) # <<>>
    /\ FnStep([fnv EXCEPT !.arg_value =
                  replace_captures(fnv.arg_value, captures_iter(fnv.arg_value), fnv.env)])

(* app.arg(arg_value) *)
substitute_done ==
    /\ fnv.pc = "while" /\ fnv.passes = 1
    /\ captures_iter(fnv.arg_value) = <<>>
    /\ FnStep([fnv EXCEPT !.pc = "out"])

NextSubst == substitute_begin \/ substitute_pass \/ substitute_done

SpecSubst == InitSubst /\ [][NextSubst]_vars /\ WF_vars(NextSubst)

(* C39: the substitution of the placeholders of an argument terminates,    *)
(* for every argument and every environment.                               *)
C39_substitution_terminates == <>(fnv.pc = "out")

(***************************************************************************)
(* podman-pilot start: the calls made for a recorded container ID, one     *)
(* invocation from the two probes to the return.  The engine knows the     *)
(* container (created), runs it (running), or neither; a call can fail to  *)
(* be spawned, which ends start with the error.                            *)
(***************************************************************************)
InitStart ==
    /\ MainIdle
    /\ idn = Off /\ prov = Off /\ vs = Off /\ MoreOff
    /\ ex \in {r \in [pc : {"probe"}, resume : BOOLEAN, attach : BOOLEAN, remove : BOOLEAN,
                      created : BOOLEAN, running : BOOLEAN,
                      is_running : {FALSE}, is_created : {FALSE}, is_removed : {FALSE},
                      calls : {<<>>}, res : {"none"}] :
                  r.running => r.created}

StartStep(r) == /\ ex' = r
                /\ UNCHANGED <<Main, idn, prov, vs, More>>

(* the branch start takes after the probes *)
start_branch(r) ==
    IF r.is_running THEN (IF r.attach THEN "attach" ELSE "exec") ELSE "start"

(* call_instance(action): the podman call, Err if it cannot be spawned;    *)
(* start has --attach unless resume is set                                 *)
call_instance(r, action, next) ==
    \E spawned \in BOOLEAN :
        IF ~spawned THEN StartStep([r EXCEPT !.pc = "done", !.res = "Err"])
        ELSE LET call == IF action = "start"
                         THEN <<"start", IF r.resume THEN "detached" ELSE "--attach">>
                         ELSE <<action>>
                 eng  == [r EXCEPT
                            !.running = IF action = "start" THEN r.created /\ r.resume
                                        ELSE IF action = "rm_force" THEN FALSE ELSE @,
                            !.created = IF action = "rm_force" THEN FALSE ELSE @,
                            !.is_removed = IF action = "rm_force" THEN TRUE ELSE @]
             IN  StartStep([eng EXCEPT !.pc = next, !.calls = Append(@, call)])

(* let is_running = container_running(cid, user)?;                         *)
(* let is_created = container_exists(cid, user)?;                          *)
st_probe ==
    /\ ex.pc = "probe"
    /\ \E failed \in BOOLEAN :
          IF failed THEN StartStep([ex EXCEPT !.pc = "done", !.res = "Err"])
          ELSE LET r == [ex EXCEPT !.is_running = ex.running, !.is_created = ex.created]
               IN  StartStep([r EXCEPT !.pc = start_branch(r)])

(* 1. attach to the running container *)
st_attach == ex.pc = "attach" /\ call_instance(ex, "attach", "option")

(* 2. execute in the running container, also after the start of 3. *)
st_exec == ex.pc = "exec" /\ call_instance(ex, "exec", "option")

(* 3. and 4.: start the container *)
st_start ==
    /\ ex.pc = "start"
    /\ call_instance(ex, "start",
                     IF ex.resume THEN "exec"
                     ELSE IF ~ex.attach \/ ~ex.is_created THEN "rm_force" ELSE "option")

(* 4.: rm_force after the attached start; is_removed = true *)
st_rm_force == ex.pc = "rm_force" /\ call_instance(ex, "rm_force", "option")

(* the removal asked for by %remove, whatever was removed before *)
remove_option_always(r) == r.remove

(* pilot_options.contains_key("%remove") && ! is_removed *)
remove_option(r) == r.remove /\ ~r.is_removed

(* the end of start: rm_force with %remove, then Ok(()) *)
st_remove_option ==
    /\ ex.pc = "option"
    /\ IF remove_option(ex) THEN call_instance(ex, "rm_force", "return")
       ELSE StartStep([ex EXCEPT !.pc = "done", !.res = "Ok"])

st_return ==
    /\ ex.pc = "return"
    /\ StartStep([ex EXCEPT !.pc = "done", !.res = "Ok"])

NextStart ==
    \/ st_probe \/ st_attach \/ st_exec \/ st_start
    \/ st_rm_force \/ st_remove_option \/ st_return

SpecStart == InitStart /\ [][NextStart]_vars

(* C33: a start that returns Ok has made the calls of the table: attach    *)
(* only (running, attach); exec only (running, no attach); a detached      *)
(* start, then exec (not running, resume); else an attached start, then    *)
(* rm_force unless attach is set and the container existed; with %remove   *)
(* one rm_force at the end unless one was made; never two.                 *)
C33_start_decision_table ==
    ex.pc = "done" /\ ex.res = "Ok" =>
        LET base == IF ex.is_running
                    THEN (IF ex.attach THEN << <<"attach">> >> ELSE << <<"exec">> >>)
                    ELSE IF ex.resume THEN << <<"start", "detached">>, <<"exec">> >>
                    ELSE << <<"start", "--attach">> >>
                         \o (IF ex.attach /\ ex.is_created THEN <<>> ELSE << <<"rm_force">> >>)
            removed == \E k \in 1..Len(base) : base[k] = <<"rm_force">>
        IN  /\ ex.calls = base \o (IF ex.remove /\ ~removed THEN << <<"rm_force">> >> ELSE <<>>)
            /\ Cardinality({k \in 1..Len(ex.calls) : ex.calls[k] = <<"rm_force">>}) <= 1
            /\ ex.remove => ex.calls[Len(ex.calls)] = <<"rm_force">>

C33_witness ==
    /\ ex.pc = "done" /\ ex.res = "Ok"
    /\ ex.remove /\ ~ex.resume /\ ~ex.attach /\ ~ex.is_running
    /\ ex.calls = << <<"start", "--attach">>, <<"rm_force">> >>

(***************************************************************************)
(* firecracker-pilot start, on the invocations of the lifecycle model.     *)
(***************************************************************************)
VmStartCalls(p) ==
    LET launches == Calls(p, "firecracker")
        sent     == Calls(p, "vsock")
        detached == cfg[VmProg].resume \/ cfg[VmProg].force_vsock
        launched == launches # <<>>
    IN  /\ Len(launches) <= 1 /\ Len(sent) <= 1
        /\ launched => launches = << <<"firecracker", proc[p].inst>> >>
        /\ At(p, "s_wait") => launched /\ ~detached /\ sent = <<>>
        /\ At(p, "s_vsock") /\ launched => detached
        /\ At(p, "done") /\ launched /\ ~detached =>
              /\ sent = <<>>
              /\ proc[p].inst \notin vmLive
              /\ proc[p].res \in {"Ok", "CommandError"}
        /\ At(p, "done") /\ launched /\ detached =>
              /\ proc[p].res \in {"Ok", "MaxTriesExceeded"}
              /\ proc[p].res = "Ok" <=> sent # <<>>
        /\ At(p, "done") /\ proc[p].res = "Ok" /\ ~launched => sent # <<>>

VmStartProbe(p) ==
    /\ At(p, "s_probe") /\ proc'[p].pc # "s_probe" =>
          IF vm_running(proc[p].vmid)
          THEN proc'[p].pc = "s_vsock" /\ vms' = vms /\ idfile' = idfile
          ELSE proc'[p].pc = "s_spawn"
    /\ At(p, "s_write") /\ proc'[p].pc # "s_write" =>
          /\ idfile'[Ident(p)] = <<"pid", proc[p].inst>>
          /\ proc'[p].pc = IF cfg[VmProg].resume \/ cfg[VmProg].force_vsock
                           THEN "s_vsock" ELSE "s_wait"

Leftovers == SUBSET (1..MaxCid)

CreateErrors(containers) ==
    [kind : {"permission", "other"}, cid : {0}]
    \cup [kind : {"in use"}, cid : containers]

InitCreate ==
    /\ MainIdle
    /\ idn = Off /\ ex = Off /\ vs = Off /\ MoreOff
    /\ prov \in [pc : {"perform"}, resume : BOOLEAN, containers : Leftovers,
                 attempts : {<<>>}, fixed : {FALSE}, removed : {<<>>},
                 provisioned : {FALSE}, res : {"none"}]

CreateStep(r) == /\ prov' = r
                 /\ UNCHANGED <<Main, idn, ex, vs, More>>

(* a creation that gives up after the first failure *)
retry_never(error, is_resume) == FALSE

(* the error is a permission error, or else resume is set *)
retry_after(error, is_resume) == error.kind = "permission" \/ is_resume

(* app.perform(): Ok(output), or the error and the branch taken on it *)
creation_perform ==
    /\ prov.pc = "perform"
    /\ \/ CreateStep([prov EXCEPT !.pc = "provision",
                                  !.attempts = Append(@, [kind |-> "ok", cid |-> 0])])
       \/ \E error \in CreateErrors(prov.containers) :
             LET r == [prov EXCEPT !.attempts = Append(@, error)]
             IN  IF ~retry_after(error, prov.resume)
                 THEN CreateStep([r EXCEPT !.pc = "done", !.res = "CommandError"])
                 ELSE IF error.kind = "permission"
                 THEN CreateStep([r EXCEPT !.pc = "fix"])
                 ELSE CreateStep([r EXCEPT !.pc = "cleanup"])

(* let _ = Container::podman_setup_permissions() *)
creation_fix_permissions ==
    /\ prov.pc = "fix"
    /\ CreateStep([prov EXCEPT !.pc = "retry", !.fixed = TRUE])

(* with resume: call_instance("rm_force", cid) if the error names a cid *)
creation_cleanup ==
    /\ prov.pc = "cleanup"
    /\ LET error == prov.attempts[1]
       IN  IF error.kind = "in use"
           THEN CreateStep([prov EXCEPT !.pc = "retry",
                                        !.containers = @ \ {error.cid},
                                        !.removed = Append(@, error.cid)])
           ELSE CreateStep([prov EXCEPT !.pc = "retry"])

(* the second app.perform()? *)
creation_retry ==
    /\ prov.pc = "retry"
    /\ \/ CreateStep([prov EXCEPT !.pc = "provision",
                                  !.attempts = Append(@, [kind |-> "ok", cid |-> 0])])
       \/ \E error \in CreateErrors(prov.containers) :
             CreateStep([prov EXCEPT !.pc = "done", !.res = "CommandError",
                                     !.attempts = Append(@, error)])

(* the provisioning of the created container starts *)
creation_provision ==
    /\ prov.pc = "provision"
    /\ \E synced \in BOOLEAN :
          CreateStep([prov EXCEPT !.pc = "done", !.provisioned = TRUE,
                                  !.res = IF synced THEN "Ok" ELSE "SyncError"])

NextCreate ==
    \/ creation_perform \/ creation_fix_permissions \/ creation_cleanup
    \/ creation_retry \/ creation_provision

SpecCreate == InitCreate /\ [][NextCreate]_vars

(* C35: podman create is tried at most twice; the second attempt is made   *)
(* exactly after a first failure with a permission error, then after the   *)
(* permission fix, or with resume set, then after the removal of the       *)
(* container an 'in use by' error names; if there is no second attempt, or *)
(* it fails, the command error is returned and nothing is provisioned.     *)
C35_create_retried_once ==
    prov # Off =>
        LET tries  == prov.attempts
            failed(k) == tries[k].kind # "ok"
            second == /\ tries # <<>> /\ failed(1)
                      /\ (tries[1].kind = "permission" \/ prov.resume)
            after  == prov.pc \in {"provision", "done"}
        IN  /\ Len(tries) <= 2
            /\ Len(tries) = 2 =>
                  /\ second
                  /\ tries[1].kind = "permission" => prov.fixed /\ prov.removed = <<>>
                  /\ tries[1].kind = "in use" =>
                        prov.removed = <<tries[1].cid>> /\ ~prov.fixed
                  /\ tries[1].kind = "other" => prov.removed = <<>> /\ ~prov.fixed
            /\ after /\ second => Len(tries) = 2
            /\ after /\ failed(Len(tries)) =>
                  prov.pc = "done" /\ prov.res = "CommandError" /\ ~prov.provisioned
            /\ prov.provisioned => ~failed(Len(tries))

C35_witness ==
    /\ prov # Off /\ prov.pc = "done" /\ prov.resume /\ prov.provisioned
    /\ Len(prov.attempts) = 2 /\ prov.attempts[1] = [kind |-> "in use", cid |-> 2]
    /\ prov.removed = <<2>> /\ 2 \notin prov.containers

(***************************************************************************)
(* execute_command_at_instance with every thread of the host and the guest *)
(* taking its next step whenever it has one.                               *)
(***************************************************************************)
SpecVsockFair == SpecVsock /\ WF_vars(NextVsock)

(* C36: every execution of execute_command_at_instance returns.            *)
C36_command_returns == <>(vs.pc = "done")

(* C37: when the loop of stream_io has ended, after an EOF on stdin or on  *)
(* the stream, everything that arrived on the stream before its EOF has    *)
(* been written to stdout.                                                 *)
C37_no_guest_output_lost ==
    /\ pump # Off /\ pump.pc = "done"
    /\ pump.cause \in {"EOF on stdin", "EOF on stream"}
    /\ pump.stream # <<>> /\ pump.stream[Len(pump.stream)] = "EOF"
    => pump.to_stdout = SubSeq(pump.stream, 1, Len(pump.stream) - 1)

(***************************************************************************)
(* CommandExtTrait::perform: handle_output(self.output(), self.get_args()) *)
(* with the output and the arguments it is given.                          *)
(***************************************************************************)
OsErrors == {"ENOENT", "EACCES"}
(* the status is an exit code, or NoCode for a child ended by a signal *)
Outputs == [status : {0, 1, 255, NoCode}, stdout : {"", "out"}, stderr : {"", "err"}]
NoOutput == [status |-> NoCode, stdout |-> "", stderr |-> ""]
MaybeOutputs ==
    [spawned : {TRUE}, output : Outputs, error : {"none"}]
    \cup [spawned : {FALSE}, output : {NoOutput}, error : OsErrors]
CommandArgs == UNION {[1..n -> {"--preserve-env", "podman", "create"}] : n \in 0..MaxArgs}

(* a status that counts as success whenever the child has exited *)
status_success_exited(status) == status # NoCode

(* ExitStatus::success *)
status_success(status) == status = 0

(* handle_output(maybe_output, args) *)
handle_output_args(maybe_output, args) ==
    IF maybe_output.spawned /\ status_success(maybe_output.output.status)
    THEN [ok |-> TRUE, output |-> maybe_output.output, base |-> "none",
          error |-> "none", args |-> <<>>]
    ELSE [ok |-> FALSE,
          output |-> maybe_output.output,
          base |-> IF maybe_output.spawned THEN "ExecutionError" ELSE "IO",
          error |-> maybe_output.error,
          args |-> args]

InitCommand ==
    /\ MainIdle
    /\ idn = Off /\ prov = Off /\ ex = Off /\ vs = Off /\ sci = Off /\ pump = Off
    /\ fnv \in [pc : {"in"}, f : {"perform"}, maybe_output : MaybeOutputs,
                args : CommandArgs, out : {<<>>}]

perform_call ==
    /\ fnv.pc = "in" /\ fnv.f = "perform"
    /\ FnStep([fnv EXCEPT !.pc = "out",
                          !.out = handle_output_args(fnv.maybe_output, fnv.args)])

NextCommand == perform_call

SpecCommand == InitCommand /\ [][NextCommand]_vars

(* C32: perform returns the captured output if and only if the child was   *)
(* spawned and exited with status zero; a child that was not spawned gives *)
(* an error with the OS error, another status an error with the whole      *)
(* captured output, and both errors hold the arguments of the command.     *)
C32_perform_is_strict ==
    FnOut("perform") =>
        LET m == fnv.maybe_output
        IN  /\ fnv.out.ok <=> (m.spawned /\ m.output.status = 0)
            /\ fnv.out.ok => fnv.out.output = m.output
            /\ ~m.spawned =>
                  fnv.out.base = "IO" /\ fnv.out.error = m.error /\ fnv.out.args = fnv.args
            /\ m.spawned /\ m.output.status # 0 =>
                  /\ fnv.out.base = "ExecutionError"
                  /\ fnv.out.output = m.output
                  /\ fnv.out.args = fnv.args

C32_witness ==
    /\ FnOut("perform") /\ ~fnv.out.ok /\ fnv.out.base = "ExecutionError"
    /\ fnv.out.output = [status |-> 255, stdout |-> "out", stderr |-> "err"]
    /\ fnv.out.args = <<"podman", "create">>

====
